---- MODULE Spec2Model ----
(***************************************************************************)
(* Model of the RFQ backend's template projection, workbook serialisation, *)
(* workbook reconciliation and verification-token handling.                *)
(*                                                                         *)
(* JavaScript objects are functions from key strings to values; a key that *)
(* is absent (undefined) is simply not in the DOMAIN.  Boolean flags are   *)
(* the strings "true" / "false" so that an absent flag can be told apart.  *)
(***************************************************************************)
EXTENDS Integers, Sequences, FiniteSets, TLC

VARIABLES
    template,     \* rfq.template.processedStructure of the RFQ (document D)
    sqr,          \* the SQR document created from the RFQ: [status, sections]
    workbook,     \* the workbook file in the supplier's hands: [status, sheets]
    extracted,    \* outcome of the last extractDataFromExcelBuffer call: [status, data]
    suppliers,    \* rfq.suppliers as stored in the database
    calls,        \* the service calls in progress, each with its position and locals
    uuids,        \* how many UUIDs generateUUID has produced
    responses,    \* the stored supplier quote requests
    applied,      \* history: the uploads whose values reached stored data
    lowestQuotes, \* outcome of the last getLowestQuotedValueForEachItem call
    sqrs,         \* the SQR collection: the documents SQRModel holds
    rfqs,         \* the RFQ collection: the documents RFQModel holds
    files         \* the temporary workbook files on disk

storeVars == <<sqrs, rfqs, files>>
docVars == <<template, sqr, workbook, extracted, lowestQuotes, storeVars>>
tokenVars == <<suppliers, calls, uuids, responses, applied>>
vars == <<template, sqr, workbook, extracted, suppliers, calls, uuids, responses, applied,
          lowestQuotes, sqrs, rfqs, files>>

\* undefined / null
NULL == "<undefined>"

---------------------------------------------------------------------------
(* Generic helpers for JavaScript objects and arrays *)

Has(r, k) == k \in DOMAIN r

\* r[k], undefined when the key is absent
Get(r, k) == IF k \in DOMAIN r THEN r[k] ELSE NULL

\* r with key k set to v ({...r, k: v})
Put(r, k, v) == [x \in (DOMAIN r) \cup {k} |-> IF x = k THEN v ELSE r[x]]

\* r with key k added only when v is defined
PutOpt(r, k, v) == IF v = NULL THEN r ELSE Put(r, k, v)

\* the array r[k], or the default [] when the key is absent
Arr(r, k) == IF k \in DOMAIN r THEN r[k] ELSE <<>>

\* JavaScript truthiness of a string-or-undefined value
Truthy(v) == v # NULL /\ v # ""

MapSeq(F(_), s) == [i \in 1..Len(s) |-> F(s[i])]

Range(s) == {s[i] : i \in 1..Len(s)}

---------------------------------------------------------------------------
(* Visibility / editability projector (sqr.model) *)

\* node.visibleToSupplier !== false
Visible(n) == Get(n, "visibleToSupplier") # "false"

\* flag || false with the flag read the other way round
OrFalse_Inverted(v) == IF v = "true" THEN "false" ELSE "true"

\* flag || false
OrFalse(v) == IF v = "true" THEN "true" ELSE "false"

processFields(fields) ==
    MapSeq(LAMBDA f :
             [id |-> Get(f, "id"), label |-> Get(f, "label"), type |-> Get(f, "type"),
              value |-> IF Truthy(Get(f, "defaultValue")) THEN f.defaultValue
                        ELSE IF Truthy(Get(f, "value")) THEN f.value ELSE "",
              visibleToSupplier |-> "true",
              editableBySupplier |-> OrFalse(Get(f, "editableBySupplier"))],
           SelectSeq(fields, Visible))

projectColumn(col) ==
    [id |-> Get(col, "id"), header |-> Get(col, "header"),
     accessorKey |-> Get(col, "accessorKey"), type |-> Get(col, "type"),
     visibleToSupplier |-> "true",
     editableBySupplier |-> OrFalse(Get(col, "editableBySupplier"))]

processTables(tables) ==
    MapSeq(LAMBDA t :
             [id |-> Get(t, "id"), title |-> Get(t, "title"),
              columns |-> MapSeq(projectColumn, SelectSeq(t.columns, Visible)),
              data |-> Arr(t, "data"),
              visibleToSupplier |-> "true",
              editableBySupplier |-> OrFalse(Get(t, "editableBySupplier"))],
           SelectSeq(tables, Visible))

\* one projected subsection
projectSubsection(s) ==
    [id |-> Get(s, "id"), title |-> Get(s, "title"),
     type |-> IF Truthy(Get(s, "type")) THEN s.type ELSE "form",
     fields |-> processFields(Arr(s, "fields")),
     tables |-> processTables(Arr(s, "tables")),
     visibleToSupplier |-> "true",
     editableBySupplier |-> OrFalse(Get(s, "editableBySupplier"))]

\* processSubsections without its visibility filter
processSubsections_KeepHidden(subsections) ==
    MapSeq(projectSubsection, subsections)

processSubsections(subsections) ==
    MapSeq(projectSubsection, SelectSeq(subsections, Visible))

\* table.columns.filter(...) on a table that has no columns: the map callback
\* of processTables dereferences undefined and a TypeError leaves the projector
TablesRaise(tables) ==
    \E t \in Range(SelectSeq(tables, Visible)) : ~Has(t, "columns")

SubsectionsRaise(subsections) ==
    \E u \in Range(SelectSeq(subsections, Visible)) : TablesRaise(Arr(u, "tables"))

\* processRFQSections does not return: some visible table it reaches raises
ProjectionRaises(structure) ==
    \E s \in Range(SelectSeq(structure.sections, Visible)) :
        \/ SubsectionsRaise(Arr(s, "subsections"))
        \/ TablesRaise(Arr(s, "tables"))

\* the template branch of processRFQSections
processRFQSections(structure) ==
    MapSeq(LAMBDA s :
             [id |-> Get(s, "id"), title |-> Get(s, "title"), type |-> Get(s, "type"),
              fields |-> processFields(Arr(s, "fields")),
              subsections |-> processSubsections(Arr(s, "subsections")),
              tables |-> processTables(Arr(s, "tables")),
              visibleToSupplier |-> "true",
              editableBySupplier |-> OrFalse(Get(s, "editableBySupplier"))],
           SelectSeq(structure.sections, Visible))

---------------------------------------------------------------------------
(* Worksheets.  A sheet is a sequence of rows, a row a sequence of cells.  *)
(* A cell holds its value (t: "null", "s" string or "n" number; s: the     *)
(* text the value prints as), its fill colour, bold font and lock state.   *)
(* ref names the document leaf a value cell was written for; no code reads *)
(* it, it only lets properties say which cell belongs to which leaf.       *)

EditableFill == "FFFFD700"
HeaderFill == "FFE0E0E0"
NoRef == <<>>

NullCell == [t |-> "null", s |-> "", fill |-> "", bold |-> FALSE, locked |-> TRUE, ref |-> NoRef]

StrCell(text) == [t |-> "s", s |-> text, fill |-> "", bold |-> FALSE, locked |-> TRUE, ref |-> NoRef]

BoldRow(row) == [i \in 1..Len(row) |-> [row[i] EXCEPT !.bold = TRUE]]

\* a row styled as a header: bold font, shaded fill
HeaderRow(texts) ==
    [i \in 1..Len(texts) |-> [StrCell(texts[i]) EXCEPT !.bold = TRUE, !.fill = HeaderFill]]

\* cell.protection = { locked: false }; cell.fill = editable colour
Unlock(cell) == [cell EXCEPT !.locked = FALSE, !.fill = EditableFill]

EmptyRow == <<>>

GetCell(row, c) == IF c >= 1 /\ c <= Len(row) THEN row[c] ELSE NullCell

\* cell.text
CellText(cell) == cell.s

\* row.hasValues: the rows eachRow visits
HasValues(row) == \E c \in 1..Len(row) : row[c].t # "null"

EachRow(rows) == {i \in 1..Len(rows) : HasValues(rows[i])}

\* cell.value === str
ValueIs(cell, str) == cell.t = "s" /\ cell.s = str

SetMax(S) == CHOOSE x \in S : \A y \in S : y <= x
SetMin(S) == CHOOSE x \in S : \A y \in S : x <= y

\* String.prototype.trim, toLowerCase and the questionnaire id form of a
\* title, on the strings the model uses
Trim(str) == CASE str = " ok " -> "ok" [] OTHER -> str

Lower(str) ==
    CASE str = "Description" -> "description"
      [] str = "Unit Price" -> "unit price"
      [] str = "Question" -> "question"
      [] str = "Response" -> "response"
      [] str = "Remarks" -> "remarks"
      [] str = "Field" -> "field"
      [] str = "Value" -> "value"
      [] str = "Hacked" -> "hacked"
      [] str = "Currency" -> "currency"
      [] str = "Incoterm" -> "incoterm"
      [] str = "EUR" -> "eur"
      [] str = "FOB" -> "fob"
      [] str = "Widget" -> "widget"
      [] str = "Gadget" -> "gadget"
      [] str = "Bolt" -> "bolt"
      [] str = "Q1" -> "q1"
      [] str = "Q2" -> "q2"
      [] str = "Q3" -> "q3"
      [] OTHER -> str

\* title.toLowerCase().replace(/\s+/g, '')
LowerNoSpace(str) ==
    CASE str = "Unit Price" -> "unitprice"
      [] str = "Scope of Work" -> "scopeofwork"
      [] str = " ok " -> "ok"
      [] OTHER -> Lower(str)

\* firstCell.endsWith(':') || firstCell.startsWith('Section:')
IsMarkerText(str) == str \in {"Section:", "Total:"}

---------------------------------------------------------------------------
(* Workbook serialiser (excel.service: generateSheetsFromTemplate)         *)

Concat(ss) ==
    LET F[i \in 0..Len(ss)] == IF i = 0 THEN <<>> ELSE F[i - 1] \o ss[i]
    IN F[Len(ss)]

\* a || b || ''
Or3(a, b) == IF Truthy(a) THEN a ELSE IF Truthy(b) THEN b ELSE ""

\* FieldRowOf unlocking the value cell whatever the field's flag
FieldRowOf_Unlocked(field) ==
    << StrCell(Or3(Get(field, "label"), Get(field, "name"))),
       Unlock([StrCell(Or3(Get(field, "value"), Get(field, "defaultValue")))
                 EXCEPT !.ref = <<"field", Get(field, "id")>>]) >>

\* the two-column Field/Value block of a section or subsection
FieldRowOf(field) ==
    LET label == Or3(Get(field, "label"), Get(field, "name"))
        value == Or3(Get(field, "value"), Get(field, "defaultValue"))
        cell == [StrCell(value) EXCEPT !.ref = <<"field", Get(field, "id")>>]
    IN << StrCell(label),
          IF Get(field, "editableBySupplier") = "true" THEN Unlock(cell) ELSE cell >>

FieldsBlock(owner) ==
    IF Has(owner, "fields") /\ Len(owner.fields) > 0
    THEN << HeaderRow(<<"Field", "Value">>) >>
         \o MapSeq(FieldRowOf, SelectSeq(owner.fields, Visible))
         \o << EmptyRow >>
    ELSE <<>>

\* col.key || col.id || col.name || ''
ColumnKey(col) ==
    IF Truthy(Get(col, "key")) THEN col.key
    ELSE Or3(Get(col, "id"), Get(col, "name"))

DataRowOf(table, visibleColumns, i) ==
    [c \in 1..Len(visibleColumns) |->
        LET col == visibleColumns[c]
            key == ColumnKey(col)
            rowData == table.data[i]
            value == IF key # "" /\ Has(rowData, key) THEN rowData[key] ELSE ""
            cell == [StrCell(value) EXCEPT
                        !.ref = <<"cell", Get(table, "id"), i, Get(col, "accessorKey")>>]
        IN IF Get(col, "editableBySupplier") = "true" THEN Unlock(cell) ELSE cell]

\* a row of empty strings added for supplier input (table.emptyRows)
InputRowOf(visibleColumns) ==
    [c \in 1..Len(visibleColumns) |->
        LET cell == [StrCell("") EXCEPT
                        !.ref = <<"input", Get(visibleColumns[c], "accessorKey")>>]
        IN IF Get(visibleColumns[c], "editableBySupplier") = "true"
           THEN Unlock(cell) ELSE cell]

processTableInSheet(table) ==
    IF ~Has(table, "columns") \/ Len(table.columns) = 0 THEN <<>>
    ELSE LET visibleColumns == SelectSeq(table.columns, Visible)
         IN IF Len(visibleColumns) = 0 THEN <<>>
            ELSE << HeaderRow(MapSeq(LAMBDA col : Or3(Get(col, "header"), Get(col, "name")),
                                     visibleColumns)) >>
                 \o [i \in 1..Len(Arr(table, "data")) |-> DataRowOf(table, visibleColumns, i)]
                 \o [i \in 1..(IF Has(table, "emptyRows") THEN table.emptyRows ELSE 0) |->
                        InputRowOf(visibleColumns)]
                 \o << EmptyRow >>

\* The list validation processTableInSheet attaches to the data cell of a
\* column: <<>> when it attaches none.  rowOptions is rowData.options when
\* that is an array, else null; the whole block is entered only for an
\* editable column with id 'response', a non-empty rowOptions and a row of
\* type single-select / multi-select.  Inside it rowOptions is therefore
\* always taken; the two later branches (options column, column.options)
\* are kept as written.
DataValidationOf(column, rowData) ==
    LET hasRowOptions == Has(rowData, "options")
        rowOptions == Arr(rowData, "options")
    IN  IF /\ Get(column, "editableBySupplier") = "true"
           /\ Get(column, "id") = "response"
           /\ hasRowOptions /\ Len(rowOptions) > 0
           /\ Get(rowData, "type") \in {"single-select", "multi-select"}
        THEN IF hasRowOptions THEN rowOptions
             ELSE IF Has(column, "options") THEN column.options
             ELSE <<>>
        ELSE <<>>

\* The note ("Valid options: ...") written on the cell of an input row; an
\* input row gets no list validation, only this note.
InputNoteOf(column) ==
    IF /\ Get(column, "editableBySupplier") = "true"
       /\ Get(column, "type") \in {"select", "multiselect"}
       /\ Len(Arr(column, "options")) > 0
    THEN column.options ELSE <<>>

\* the list validations and notes of one table: one record per data or
\* input cell that got one
TableValidations(table) ==
    IF ~Has(table, "columns") \/ Len(table.columns) = 0 THEN {}
    ELSE LET visibleColumns == SelectSeq(table.columns, Visible)
             rows == Len(Arr(table, "data"))
         IN UNION { { [kind |-> "list", table |-> Get(table, "id"), row |-> i,
                       column |-> Get(visibleColumns[c], "id"),
                       options |-> DataValidationOf(visibleColumns[c], table.data[i])]
                      : c \in {x \in 1..Len(visibleColumns) :
                                 DataValidationOf(visibleColumns[x], table.data[i]) # <<>>} }
                    : i \in 1..rows }
            \cup
            { [kind |-> "note", table |-> Get(table, "id"), row |-> rows + i,
               column |-> Get(visibleColumns[c], "id"),
               options |-> InputNoteOf(visibleColumns[c])]
              : i \in 1..(IF Has(table, "emptyRows") THEN table.emptyRows ELSE 0),
                c \in {x \in 1..Len(visibleColumns) :
                         InputNoteOf(visibleColumns[x]) # <<>>} }

\* the validations and notes of all the sheets of a template
SheetValidations(structure) ==
    UNION { UNION { TableValidations(t) :
                      t \in Range(SelectSeq(Arr(owner, "tables"), Visible)) }
            : owner \in UNION { {sec} \cup Range(SelectSeq(Arr(sec, "subsections"), Visible))
                                : sec \in Range(SelectSeq(structure.sections, Visible)) } }

TablesBlock(owner) ==
    Concat(MapSeq(processTableInSheet, SelectSeq(Arr(owner, "tables"), Visible)))

\* processSectionContent: one Heading/Description table for the visible
\* subsections that carry free text
HasContent(sub) == Visible(sub) /\ Truthy(Get(sub, "content"))

processSectionContent(section) ==
    LET withContent == SelectSeq(Arr(section, "subsections"), HasContent)
    IN IF Len(withContent) = 0 THEN <<>>
       ELSE << HeaderRow(<<"Heading", "Description">>) >>
            \o MapSeq(LAMBDA sub : << StrCell(IF Truthy(Get(sub, "title")) THEN sub.title
                                               ELSE "Details"),
                                      StrCell(sub.content) >>, withContent)
            \o << EmptyRow >>

SubsectionBlock(sub) ==
    << BoldRow(<< StrCell(Get(sub, "title")) >>), EmptyRow >>
    \o FieldsBlock(sub) \o TablesBlock(sub)

SheetOfSection(section) ==
    LET title == IF Truthy(Get(section, "title")) THEN section.title ELSE "Untitled Section"
    IN [name |-> title,
        rows |-> << BoldRow(<< StrCell(title) >>), EmptyRow >>
                 \o FieldsBlock(section)
                 \o TablesBlock(section)
                 \o processSectionContent(section)
                 \o Concat(MapSeq(SubsectionBlock,
                                  SelectSeq(Arr(section, "subsections"), Visible)))]

\* one sheet per visible section (the hidden dropdown sheets hold no cells
\* and are never looked up by a section title; they are left out)
generateSheetsFromTemplate(structure) ==
    MapSeq(SheetOfSection, SelectSeq(structure.sections, Visible))

---------------------------------------------------------------------------
(* Workbook reconciler (excel.service: extractDataFromExcelBuffer)         *)

\* value === null ? '' : value.toString()
formatCellValue(cell) == IF cell.t = "null" THEN "" ELSE cell.s

\* every cell of the row is null or the empty string
isEmptyRow(row) == \A c \in 1..Len(row) : row[c].t = "null" \/ (row[c].t = "s" /\ row[c].s = "")

\* length of the sparse rowValues array filled by row.eachCell
RowValuesLen(row) ==
    IF HasValues(row) THEN SetMax({c \in 1..Len(row) : row[c].t # "null"}) ELSE 0

\* rowValues.includes(v) for a string or undefined v
Includes(row, v) ==
    IF v = NULL THEN \E c \in 1..RowValuesLen(row) : row[c].t = "null"
    ELSE \E c \in 1..Len(row) : ValueIs(row[c], v)

\* worksheet.rowCount: number of the last row that holds cells
RowCount(rows) ==
    LET used == {i \in 1..Len(rows) : Len(rows[i]) > 0}
    IN IF used = {} THEN 0 ELSE SetMax(used)

\* the k-th smallest element of a set of row numbers
NthOf(S, k) == CHOOSE x \in S : Cardinality({y \in S : y < x}) = k - 1

isGold(cell) == cell.fill = EditableFill

ExcelService_processFields(fields, rows) ==
    MapSeq(LAMBDA field :
             IF Get(field, "visibleToSupplier") = "false"
                \/ Get(field, "editableBySupplier") = "false"
             THEN field
             ELSE LET hits == {i \in EachRow(rows) :
                                  /\ ValueIs(GetCell(rows[i], 1), Get(field, "label"))
                                  /\ isGold(GetCell(rows[i], 2))}
                  IN IF hits = {} THEN field
                     ELSE Put(field, "value",
                              formatCellValue(GetCell(rows[SetMax(hits)], 2))),
           fields)

\* table.columns.find(col => col.header === header || col.accessorKey === header)
FindColumn(columns, header) ==
    LET hits == {i \in 1..Len(columns) :
                    Get(columns[i], "header") = header \/ Get(columns[i], "accessorKey") = header}
    IN IF hits = {} THEN 0 ELSE SetMin(hits)

\* column.id || column.accessorKey
EditableColumnKey(col) ==
    IF Truthy(Get(col, "id")) THEN col.id ELSE Get(col, "accessorKey")

\* the regular extraction of a top-level table
TopLevelTableData(table, rows) ==
    LET columns == table.columns
        headerRows == {i \in EachRow(rows) :
                          \E k \in 1..Len(columns) :
                              \/ Includes(rows[i], Get(columns[k], "header"))
                              \/ Includes(rows[i], Get(columns[k], "accessorKey"))}
    IN IF headerRows = {} \/ ~Has(table, "data") THEN table
       ELSE
       LET headerRowNumber == SetMin(headerRows)
           header == rows[headerRowNumber]
           \* positions of the header row that name an editable column
           editablePos == {c \in 1..Len(header) :
                              /\ header[c].t = "s"
                              /\ FindColumn(columns, header[c].s) # 0
                              /\ Get(columns[FindColumn(columns, header[c].s)],
                                     "editableBySupplier") = "true"}
           KeyAt(c) == EditableColumnKey(columns[FindColumn(columns, header[c].s)])
           \* editableColumns[key] = index, a later position overwriting
           editableKeys == {KeyAt(c) : c \in editablePos}
           IndexOf(key) == SetMax({c \in editablePos : KeyAt(c) = key}) - 1
           dataRows == {i \in EachRow(rows) : i > headerRowNumber /\ ~isEmptyRow(rows[i])}
           NewRow(k) ==
               IF k > Cardinality(dataRows) THEN table.data[k]
               ELSE LET row == rows[NthOf(dataRows, k)]
                        written == {key \in editableKeys : IndexOf(key) < RowValuesLen(row)}
                        old == table.data[k]
                    IN [x \in (DOMAIN old) \cup written |->
                          IF x \in written
                          THEN formatCellValue(GetCell(row, IndexOf(x) + 1))
                          ELSE old[x]]
       IN [table EXCEPT !.data = [k \in 1..Len(table.data) |-> NewRow(k)]]

\* cell.text.trim() of the non-null cells, pushed one after another
HeaderTexts(row) ==
    LET F[c \in 0..Len(row)] ==
            IF c = 0 THEN <<>>
            ELSE IF row[c].t = "null" THEN F[c - 1]
            ELSE Append(F[c - 1], Trim(CellText(row[c])))
    IN F[Len(row)]

\* no cell of the row has text left after trimming
BlankRow(row) == \A c \in 1..Len(row) : row[c].t = "null" \/ Trim(CellText(row[c])) = ""

\* headerRow.findIndex(h => h.toLowerCase() === column.header.toLowerCase())
HeaderIndex(headerRow, column) ==
    LET hits == {i \in 1..Len(headerRow) : Lower(headerRow[i]) = Lower(column.header)}
    IN IF hits = {} THEN 0 ELSE SetMin(hits)

extractSubsectionTableData(table, rows, subsectionTitle) ==
    LET titleRows == {i \in EachRow(rows) :
                         Trim(CellText(GetCell(rows[i], 1))) = subsectionTitle}
    IN IF titleRows = {} THEN <<>>
       ELSE
       LET headerRowIndex == SetMax(titleRows) + 2
           rowCount == RowCount(rows)
       IN IF headerRowIndex > rowCount THEN <<>>
          ELSE
          LET headerRow == HeaderTexts(rows[headerRowIndex])
              tableStartRow == headerRowIndex + 1
              stops == {i \in tableStartRow..rowCount :
                           \/ BlankRow(rows[i])
                           \/ IsMarkerText(Trim(CellText(GetCell(rows[i], 1))))}
              tableEndRow == IF stops # {} THEN SetMin(stops) - 1
                             ELSE IF tableStartRow <= rowCount THEN rowCount ELSE 0 - 1
              columns == Arr(table, "columns")
              editable == {k \in 1..Len(columns) :
                              Get(columns[k], "editableBySupplier") = "true"}
              \* reading a missing columns array or a missing header throws
              throws == /\ tableStartRow <= tableEndRow
                        /\ \/ ~Has(table, "columns")
                           \/ /\ Len(headerRow) > 0
                              /\ \E k \in editable : ~Has(columns[k], "header")
              RowData(rowIndex) ==
                  LET offset == rowIndex - tableStartRow
                      row == rows[rowIndex]
                      original == IF Has(table, "data") /\ offset + 1 <= Len(table.data)
                                  THEN table.data[offset + 1] ELSE <<>>
                      found == {k \in editable : HeaderIndex(headerRow, columns[k]) # 0}
                      keys == {columns[k].accessorKey : k \in found}
                      ColOf(key) == SetMax({k \in found : columns[k].accessorKey = key})
                  IN [x \in (DOMAIN original) \cup keys |->
                        IF x \in keys
                        THEN Trim(CellText(GetCell(row,
                                    HeaderIndex(headerRow, columns[ColOf(x)]))))
                        ELSE original[x]]
          IN IF throws THEN <<>>
             ELSE [j \in 1..(tableEndRow - tableStartRow + 1) |->
                      RowData(tableStartRow + j - 1)]

ExcelService_processTables(tables, rows, parentTitle) ==
    MapSeq(LAMBDA table :
             IF ~Truthy(Get(table, "title")) \/ Get(table, "visibleToSupplier") = "false"
             THEN table
             ELSE IF Truthy(parentTitle)
             THEN Put(table, "data", extractSubsectionTableData(table, rows, parentTitle))
             ELSE IF ~Has(table, "columns") THEN table
             ELSE TopLevelTableData(table, rows),
           tables)

\* JavaScript truthiness of a cell value
CellTruthy(cell) == cell.t # "null" /\ cell.s # "" /\ ~(cell.t = "n" /\ cell.s = "0")

\* index of the first element of seq satisfying P, 0 when there is none
FirstIndex(seq, P(_)) ==
    LET hits == {i \in 1..Len(seq) : P(seq[i])}
    IN IF hits = {} THEN 0 ELSE SetMin(hits)

\* the merge of one question row into the structure
MergeQuestion(structure, sectionTitle, row) ==
    LET si == FirstIndex(structure.sections,
                         LAMBDA sec : Get(sec, "id") = "questionnaire"
                                      \/ Get(sec, "accessorKey") = "questionnaire")
    IN IF si = 0 \/ ~Has(structure.sections[si], "subsections") THEN structure
       ELSE
       LET subs == structure.sections[si].subsections
           ui == FirstIndex(subs, LAMBDA sub : Get(sub, "title") = sectionTitle
                                               \/ Get(sub, "id") = LowerNoSpace(sectionTitle))
       IN IF ui = 0 \/ Len(Arr(subs[ui], "tables")) = 0
             \/ ~Has(subs[ui].tables[1], "data") THEN structure
          ELSE
          LET data == subs[ui].tables[1].data
              qi == FirstIndex(data, LAMBDA q : ValueIs(GetCell(row, 1), Get(q, "question")))
          IN IF qi = 0 THEN structure
             ELSE
             LET response == formatCellValue(GetCell(row, 2))
                 withResponse == Put(Put(data[qi], "value", response), "response", response)
                 question == IF CellTruthy(GetCell(row, 3))
                             THEN Put(withResponse, "remarks", formatCellValue(GetCell(row, 3)))
                             ELSE withResponse
             IN [structure EXCEPT
                   !.sections[si].subsections[ui].tables[1].data[qi] = question]

SheetIndex(sheets, name) == FirstIndex(sheets, LAMBDA sh : sh.name = name)

processQuestionnaire(structure, sheets) ==
    IF ~Has(structure, "questionnaire") \/ SheetIndex(sheets, "Questionnaire") = 0
    THEN structure
    ELSE
    LET rows == sheets[SheetIndex(sheets, "Questionnaire")].rows
        \* the walk over the rows: [inSection, title, structure] after row i
        Walk[i \in 0..Len(rows)] ==
            IF i = 0 THEN [inSection |-> FALSE, title |-> "", structure |-> structure]
            ELSE LET prev == Walk[i - 1]
                     row == rows[i]
                     first == GetCell(row, 1)
                 IN IF ~HasValues(row) THEN prev
                    ELSE IF first.t = "s" /\ first.s # "" /\ first.bold
                    THEN [prev EXCEPT !.inSection = TRUE, !.title = first.s]
                    ELSE IF prev.inSection /\ CellTruthy(first) /\ CellTruthy(GetCell(row, 2))
                    THEN [prev EXCEPT !.structure = MergeQuestion(prev.structure, prev.title, row)]
                    ELSE prev
    IN Walk[Len(rows)].structure

\* the sections loop of extractDataFromExcelBuffer, for one section
ReconcileSubsection(sub, rows) ==
    IF Get(sub, "visibleToSupplier") = "false" THEN sub
    ELSE LET withFields == IF Has(sub, "fields")
                           THEN Put(sub, "fields", ExcelService_processFields(sub.fields, rows))
                           ELSE sub
         IN IF Has(sub, "tables")
            THEN Put(withFields, "tables",
                     ExcelService_processTables(sub.tables, rows, Get(sub, "title")))
            ELSE withFields

\* workbook.getWorksheet(title); an undefined title yields the first sheet
WorksheetIndex(sheets, title) ==
    IF title = NULL THEN (IF Len(sheets) > 0 THEN 1 ELSE 0) ELSE SheetIndex(sheets, title)

\* a section whose worksheet is missing loses its fields
ReconcileSection_ClearMissing(section, sheets) ==
    IF Get(section, "visibleToSupplier") = "false" THEN section
    ELSE IF WorksheetIndex(sheets, Get(section, "title")) = 0
    THEN Put(section, "fields", <<>>)
    ELSE LET rows == sheets[WorksheetIndex(sheets, Get(section, "title"))].rows
         IN Put(section, "fields", ExcelService_processFields(Arr(section, "fields"), rows))

ReconcileSection(section, sheets) ==
    IF Get(section, "visibleToSupplier") = "false"
       \/ WorksheetIndex(sheets, Get(section, "title")) = 0
    THEN section
    ELSE LET rows == sheets[WorksheetIndex(sheets, Get(section, "title"))].rows
             withFields == IF Has(section, "fields")
                           THEN Put(section, "fields",
                                    ExcelService_processFields(section.fields, rows))
                           ELSE section
             withTables == IF Has(section, "tables")
                           THEN Put(withFields, "tables",
                                    ExcelService_processTables(section.tables, rows, NULL))
                           ELSE withFields
         IN IF Has(section, "subsections")
            THEN Put(withTables, "subsections",
                     MapSeq(LAMBDA sub : ReconcileSubsection(sub, rows), section.subsections))
            ELSE withTables

\* supplier.id.toString()
IdString(id) == <<"1", "2", "3">>[id]

RfqId == "rfq-1"

\* rfq.suppliers.find(s => s.id.toString() === supplierId); 0 when not found
FindSupplier(sups, supplierId) ==
    FirstIndex(sups, LAMBDA sup : IdString(sup.id) = supplierId)

\* verification that lets every workbook through
verifySupplierUUID_Skipped(sheets, sups, supplierId) == TRUE

verifySupplierUUID(sheets, sups, supplierId) ==
    IF SheetIndex(sheets, "Supplier") = 0 THEN FALSE
    ELSE LET rows == sheets[SheetIndex(sheets, "Supplier")].rows
             hits == {i \in EachRow(rows) : ValueIs(GetCell(rows[i], 1), "Verification UUID")}
         IN IF hits = {} THEN FALSE
            ELSE LET uploaded == GetCell(rows[SetMax(hits)], 2)
                     si == FindSupplier(sups, supplierId)
                 IN /\ CellTruthy(uploaded)
                    /\ si # 0
                    /\ Truthy(sups[si].excelUUID)
                    /\ ValueIs(uploaded, sups[si].excelUUID)

\* the structure returned once verification has passed
ExtractStructure(structure, sheets, supplierId) ==
    LET reconciled == IF Has(structure, "sections")
                      THEN processQuestionnaire(
                               Put(structure, "sections",
                                   MapSeq(LAMBDA sec : ReconcileSection(sec, sheets),
                                          structure.sections)),
                               sheets)
                      ELSE structure
    IN Put(reconciled, "metadata", [rfqId |-> RfqId, supplierId |-> supplierId])

extractDataFromExcelBuffer(sheets, structure, sups, supplierId) ==
    IF ~verifySupplierUUID(sheets, sups, supplierId)
    THEN [status |-> "error"]
    ELSE [status |-> "ok", data |-> ExtractStructure(structure, sheets, supplierId)]

\* the 'Supplier' sheet written by addSupplierSheet for a supplier found in
\* the RFQ, carrying the verification token uuid
SupplierDetailRow(field, value) == << StrCell(field), StrCell(value) >>

SupplierSheet(supplier, uuid) ==
    [name |-> "Supplier",
     rows |-> << BoldRow(<< StrCell("Supplier Information") >>), EmptyRow,
                 HeaderRow(<<"Field", "Value">>),
                 SupplierDetailRow("Supplier ID", IdString(supplier.id)),
                 SupplierDetailRow("Name", "N/A"),
                 SupplierDetailRow("Email", supplier.email),
                 SupplierDetailRow("Phone", "N/A"),
                 SupplierDetailRow("Address", "N/A"),
                 SupplierDetailRow("Contact Person", "N/A"),
                 SupplierDetailRow("RFQ ID", RfqId),
                 SupplierDetailRow("RFQ Title", "N/A"),
                 SupplierDetailRow("RFQ Due Date", "N/A"),
                 SupplierDetailRow("Verification UUID", uuid) >>]

SupplierSheetNotFound ==
    [name |-> "Supplier",
     rows |-> << BoldRow(<< StrCell("Supplier Information") >>), EmptyRow,
                 << StrCell("Supplier not found in this RFQ") >> >>]

InstructionsSheet ==
    [name |-> "Instructions",
     rows |-> << BoldRow(<< StrCell("How to Complete This RFQ Response") >>), EmptyRow,
                 << StrCell("This Excel file contains the details of the Request for Quotation (RFQ).") >>,
                 << StrCell("Please follow these instructions to submit your response:") >>,
                 << StrCell("") >>,
                 << StrCell("1. Review all sheets to understand the requirements.") >>,
                 << StrCell("2. Fill in your responses in the designated editable cells.") >>,
                 << StrCell("3. Save the file with your company name in the filename.") >>,
                 << StrCell("4. Submit your response before the deadline.") >> >>]

\* the sheets of the workbook generateRFQExcel writes for a supplier
WorkbookSheets(structure, supplierSheet) ==
    << InstructionsSheet, supplierSheet >> \o generateSheetsFromTemplate(structure)

---------------------------------------------------------------------------
(* SQR import (excel-import.service: importSQRFromExcel)                   *)

\* worksheet.getRow(n)
GetRow(rows, n) == IF n >= 1 /\ n <= Len(rows) THEN rows[n] ELSE EmptyRow

\* the value of an editable field: the second cell of the last row whose
\* first cell shows the field's label
ImportFields(fields, rows) ==
    MapSeq(LAMBDA field :
             IF Get(field, "editableBySupplier") # "true" THEN field
             ELSE LET hits == {i \in EachRow(rows) :
                                  Trim(CellText(GetCell(rows[i], 1))) = Get(field, "label")}
                  IN IF hits = {} THEN field
                     ELSE Put(field, "value",
                              Trim(CellText(GetCell(rows[SetMax(hits)], 2)))),
           fields)

\* rows of the table as read below the header, two rows under the title row
ImportTable(table, rows) ==
    LET titleRows == {i \in EachRow(rows) :
                         Trim(CellText(GetCell(rows[i], 1))) = Get(table, "title")}
    IN IF titleRows = {} THEN table
       ELSE
       LET tableStartRow == SetMax(titleRows) + 2
           headerRow == HeaderTexts(GetRow(rows, tableStartRow))
           rowCount == RowCount(rows)
           blanks == {n \in (tableStartRow + 1)..rowCount : BlankRow(rows[n])}
           tableEndRow == IF blanks # {} THEN SetMin(blanks) - 1
                          ELSE IF tableStartRow + 1 <= rowCount THEN rowCount
                          ELSE tableStartRow
           columns == table.columns
           editable == {k \in 1..Len(columns) :
                           /\ Get(columns[k], "editableBySupplier") = "true"
                           /\ HeaderIndex(headerRow, columns[k]) # 0}
           RowData(rowNum) ==
               LET original == IF Has(table, "data") /\ rowNum - tableStartRow <= Len(table.data)
                               THEN table.data[rowNum - tableStartRow] ELSE <<>>
                   kept == {columns[k].accessorKey :
                              k \in {x \in 1..Len(columns) :
                                       /\ Get(columns[x], "editableBySupplier") # "true"
                                       /\ Has(original, columns[x].accessorKey)}}
                   read == {columns[k].accessorKey : k \in editable}
                   ColOf(key) == SetMax({k \in editable : columns[k].accessorKey = key})
               IN [x \in kept \cup read |->
                     IF x \in kept THEN original[x]
                     ELSE Trim(CellText(GetCell(rows[rowNum],
                                  HeaderIndex(headerRow, columns[ColOf(x)]))))]
       IN Put(table, "data",
              [j \in 1..(tableEndRow - tableStartRow) |-> RowData(tableStartRow + j)])

extractDataFromWorksheet(rows, section) ==
    [fields |-> ImportFields(section.fields, rows),
     subsections |-> MapSeq(LAMBDA sub :
                              [sub EXCEPT !.fields = ImportFields(@, rows),
                                          !.tables = MapSeq(LAMBDA t : ImportTable(t, rows), @)],
                            section.subsections),
     tables |-> MapSeq(LAMBDA t : ImportTable(t, rows), section.tables)]

\* the sections of the SQR after every worksheet but the first has been
\* matched by name against the section titles
ImportSheets(sections, sheets) ==
    LET Step[i \in 1..Len(sheets)] ==
            IF i = 1 THEN sections
            ELSE LET prev == Step[i - 1]
                     k == FirstIndex(prev, LAMBDA sec :
                                       Lower(sec.title) = Lower(sheets[i].name))
                 IN IF k = 0 THEN prev
                    ELSE [prev EXCEPT ![k] =
                            LET got == extractDataFromWorksheet(sheets[i].rows, prev[k])
                            IN [prev[k] EXCEPT !.fields = got.fields,
                                               !.subsections = got.subsections,
                                               !.tables = got.tables]]
    IN IF Len(sheets) = 0 THEN sections ELSE Step[Len(sheets)]

---------------------------------------------------------------------------
(* Template documents *)

Flags3 == {"true", "false", NULL}
Flags2 == {"true", "false"}

MkField(id, label, value, vis, edit) ==
    PutOpt(PutOpt([id |-> id, label |-> label, type |-> "text", value |-> value],
                  "visibleToSupplier", vis), "editableBySupplier", edit)

MkColumn(id, header, key, vis, edit) ==
    PutOpt(PutOpt([id |-> id, header |-> header, accessorKey |-> key, type |-> "string"],
                  "visibleToSupplier", vis), "editableBySupplier", edit)

MkTable(id, title, columns, data, vis) ==
    PutOpt([id |-> id, title |-> title, columns |-> columns, data |-> data],
           "visibleToSupplier", vis)

MkSubsection(id, title, fields, tables, vis) ==
    PutOpt([id |-> id, title |-> title, fields |-> fields, tables |-> tables],
           "visibleToSupplier", vis)

MkSection(id, title, fields, tables, subsections, vis) ==
    PutOpt([id |-> id, title |-> title, type |-> "form", fields |-> fields,
            tables |-> tables, subsections |-> subsections],
           "visibleToSupplier", vis)

\* The documents the projector is run on: one section holding a field, a
\* table and a subsection (itself holding a field and a table), with every
\* combination of visibility flags.
ProjectionDocs ==
    { [sections |-> <<
         MkSection("s1", "Pricing",
            << MkField("f1", "Currency", "EUR", fv, "true") >>,
            << MkTable("t1", "Items",
                  << MkColumn("c1", "Description", "description", NULL, "false"),
                     MkColumn("c2", "Unit Price", "unitPrice", cv, "true") >>,
                  << [id |-> "1", description |-> "Widget", unitPrice |-> ""] >>, tv) >>,
            << MkSubsection("u1", "Delivery",
                  << MkField("f2", "Incoterm", "FOB", gv, "false") >>,
                  << MkTable("t2", "Lots",
                        << MkColumn("c3", "Lot", "lot", dv, "false") >>,
                        << [id |-> "1", lot |-> "A"] >>, wv) >>, uv) >>,
            sv) >>]
      : sv \in Flags3, uv \in Flags3, tv \in Flags3, wv \in Flags3,
        fv \in Flags2, gv \in Flags2, cv \in Flags2, dv \in Flags2 }

\* ids of a node and all its descendants
TableIds(t) == {t.id} \cup {c.id : c \in Range(t.columns)}
SubsectionIds(u) ==
    {u.id} \cup {f.id : f \in Range(Arr(u, "fields"))}
           \cup UNION {TableIds(t) : t \in Range(Arr(u, "tables"))}
SectionIds(s) ==
    {s.id} \cup {f.id : f \in Range(Arr(s, "fields"))}
           \cup UNION {TableIds(t) : t \in Range(Arr(s, "tables"))}
           \cup UNION {SubsectionIds(u) : u \in Range(Arr(s, "subsections"))}
DocIds(sections) == UNION {SectionIds(s) : s \in Range(sections)}

---------------------------------------------------------------------------
(* Projection of a template into an SQR *)

NoSqr == [status |-> "none"]
NoWorkbook == [status |-> "none"]
NoExtract == [status |-> "none"]
NoLowest == [status |-> "none"]

\* no SQR, no RFQ and no temporary file yet
EmptyStore ==
    /\ sqrs = <<>>
    /\ rfqs = <<>>
    /\ files = {}

\* the token-handling state, idle
IdleToken ==
    /\ suppliers = <<>>
    /\ calls = <<>>
    /\ uuids = 0
    /\ responses = <<>>
    /\ applied = {}

InitProject ==
    /\ template \in ProjectionDocs
    /\ sqr = NoSqr
    /\ workbook = NoWorkbook
    /\ extracted = NoExtract
    /\ IdleToken
    /\ lowestQuotes = NoLowest
    /\ EmptyStore

\* createSQRFromRFQ: the SQR's sections are the projection of the template
\* (nothing is saved when the projector raises: the caller sees the error)
CreateSQRFromRFQ ==
    /\ sqr.status = "none"
    /\ sqr' = IF ProjectionRaises(template)
              THEN [status |-> "error"]
              ELSE [status |-> "draft", sections |-> processRFQSections(template)]
    /\ UNCHANGED <<template, workbook, extracted, lowestQuotes, storeVars>>
    /\ UNCHANGED tokenVars

NextProject == CreateSQRFromRFQ

SpecProject == InitProject /\ [][NextProject]_vars

\* ids of the nodes of D that are hidden: flagged invisible themselves, or
\* below a node flagged invisible
HiddenTableIds(t) ==
    IF ~Visible(t) THEN TableIds(t)
    ELSE {c.id : c \in {x \in Range(t.columns) : Get(x, "visibleToSupplier") = "false"}}
HiddenSubsectionIds(u) ==
    IF Get(u, "visibleToSupplier") = "false" THEN SubsectionIds(u)
    ELSE {f.id : f \in {x \in Range(u.fields) : Get(x, "visibleToSupplier") = "false"}}
         \cup UNION {HiddenTableIds(t) : t \in Range(u.tables)}
HiddenSectionIds(s) ==
    IF Get(s, "visibleToSupplier") = "false" THEN SectionIds(s)
    ELSE {f.id : f \in {x \in Range(s.fields) : Get(x, "visibleToSupplier") = "false"}}
         \cup UNION {HiddenTableIds(t) : t \in Range(s.tables)}
         \cup UNION {HiddenSubsectionIds(u) : u \in Range(s.subsections)}
HiddenIds(doc) == UNION {HiddenSectionIds(s) : s \in Range(doc.sections)}

\* C3: the projection of D holds no node that is invisible in D and no
\* descendant of an invisible node, whatever the descendant's own flag.
C3_VisibilityExclusionary ==
    sqr.status # "none" => DocIds(sqr.sections) \cap HiddenIds(template) = {}

\* C3 witness: a projection that kept the section and its table but dropped a
\* hidden subsection whose own field and table are flagged visible.
C3_Witness ==
    /\ sqr.status # "none"
    /\ Get(template.sections[1].subsections[1], "visibleToSupplier") = "false"
    /\ Get(template.sections[1].subsections[1].fields[1], "visibleToSupplier") = "true"
    /\ Get(template.sections[1].subsections[1].tables[1], "visibleToSupplier") = "true"
    /\ "t1" \in DocIds(sqr.sections)
    /\ "f2" \notin DocIds(sqr.sections)

---------------------------------------------------------------------------
(* Projection of templates whose optional parts are missing and whose      *)
(* fields carry a default value, a value, both or neither                  *)

\* what a field's defaultValue / value may hold: nothing, the empty string
\* (falsy), or a text
DefaultValues == {NULL, "", "10"}
FieldValues == {NULL, "", "5"}

MaxInputRows == 1

OptionalField(dv, v, edit) ==
    PutOpt(PutOpt(PutOpt([id |-> "f1", label |-> "Currency", type |-> "text"],
                         "defaultValue", dv), "value", v), "editableBySupplier", edit)

OptionalTable(hasColumns, hasData, cedit, inputRows) ==
    LET bare == IF inputRows > 0
                THEN [id |-> "t1", title |-> "Items", emptyRows |-> inputRows]
                ELSE [id |-> "t1", title |-> "Items"]
        cols == IF hasColumns
                THEN Put(bare, "columns",
                         << MkColumn("c1", "Description", "description", NULL, NULL),
                            MkColumn("c2", "Unit Price", "unitPrice", NULL, cedit) >>)
                ELSE bare
    IN  IF hasData
        THEN Put(cols, "data", << [id |-> "1", description |-> "Widget", unitPrice |-> "7"] >>)
        ELSE cols

OptionalSection(parts, field, table) ==
    LET bare == [id |-> "s1", title |-> "Pricing", type |-> "form"]
        f == IF "fields" \in parts THEN Put(bare, "fields", << field >>) ELSE bare
        t == IF "tables" \in parts THEN Put(f, "tables", << table >>) ELSE f
    IN  IF "subsections" \in parts
        THEN Put(t, "subsections",
                 << IF "subtables" \in parts
                    THEN [id |-> "u1", title |-> "Delivery", tables |-> << table >>]
                    ELSE [id |-> "u1", title |-> "Delivery"] >>)
        ELSE t

OptionalParts == SUBSET {"fields", "tables", "subsections", "subtables"}

OptionalDocs ==
    { [sections |-> << OptionalSection(parts, OptionalField(dv, v, edit),
                                       OptionalTable(hasColumns, hasData, cedit,
                                                     inputRows)) >>]
      : parts \in OptionalParts, dv \in DefaultValues, v \in FieldValues,
        edit \in {NULL, "true"}, hasColumns \in BOOLEAN, hasData \in BOOLEAN,
        cedit \in {NULL, "true"}, inputRows \in 0..MaxInputRows }

\* a questionnaire-like table: a question column and an answer column whose
\* id is 'response' or not, each row being a question with its type and,
\* possibly, its own options; the column may carry options as well
RowOptionLists == {NULL, "none", "row"}
ColumnOptionLists == {NULL, "column"}

OptionList(which) ==
    CASE which = "row" -> <<"Yes", "No">>
      [] which = "column" -> <<"Low", "High">>
      [] OTHER -> <<>>

DropdownColumn(id, type, which, edit) ==
    LET col == PutOpt([id |-> id, header |-> "Response", accessorKey |-> "response",
                       type |-> type], "editableBySupplier", edit)
    IN IF which = NULL THEN col ELSE Put(col, "options", OptionList(which))

DropdownRow(type, which) ==
    LET row == [id |-> "q1", question |-> "ISO certified?", type |-> type, response |-> ""]
    IN IF which = NULL THEN row ELSE Put(row, "options", OptionList(which))

DropdownDocs ==
    { [sections |-> <<
         [id |-> "s2", title |-> "Compliance", type |-> "table",
          tables |-> <<
             [id |-> "t3", title |-> "Questions", emptyRows |-> inputRows,
              columns |-> << MkColumn("question", "Question", "question", NULL, NULL),
                             DropdownColumn(id, ctype, copts, edit) >>,
              data |-> << DropdownRow(rtype, ropts) >>] >>] >>]
      : id \in {"response", "answer"}, ctype \in {"select", "text"},
        copts \in ColumnOptionLists, edit \in {NULL, "true"},
        rtype \in {"single-select", "multi-select", "text"}, ropts \in RowOptionLists,
        inputRows \in 0..MaxInputRows }

InitOptional ==
    /\ template \in OptionalDocs \cup DropdownDocs
    /\ sqr = NoSqr
    /\ workbook = NoWorkbook
    /\ extracted = NoExtract
    /\ IdleToken
    /\ lowestQuotes = NoLowest
    /\ EmptyStore

\* generateSheetsFromTemplate run on the template the SQR was projected from
SerializeOptional ==
    /\ workbook.status = "none"
    /\ workbook' = [status |-> "generated",
                    sheets |-> generateSheetsFromTemplate(template),
                    validations |-> SheetValidations(template)]
    /\ UNCHANGED <<template, sqr, extracted, lowestQuotes, storeVars>>
    /\ UNCHANGED tokenVars

NextOptional == CreateSQRFromRFQ \/ SerializeOptional

SpecOptional == InitOptional /\ [][NextOptional]_vars

---------------------------------------------------------------------------
(* Round trip: serialise a template, let the supplier work on the file,    *)
(* reconcile the upload against the template                               *)

MaxRows == 2

ItemRows ==
    << [id |-> "1", description |-> "Widget", unitPrice |-> ""],
       [id |-> "2", description |-> "Gadget", unitPrice |-> ""],
       [id |-> "3", description |-> "Bolt", unitPrice |-> ""] >>

QuestionRows ==
    << [id |-> "1", question |-> "Q1", response |-> "", remarks |-> "r1"],
       [id |-> "2", question |-> "Q2", response |-> "", remarks |-> "r2"],
       [id |-> "3", question |-> "Q3", response |-> "", remarks |-> "r3"] >>

\* the items table; sameId: the column ids are the accessor keys
ItemsTable(n, sameId) ==
    MkTable("t1", "Items",
       << MkColumn(IF sameId THEN "description" ELSE "c1", "Description", "description",
                   NULL, "false"),
          MkColumn(IF sameId THEN "unitPrice" ELSE "c2", "Unit Price", "unitPrice",
                   NULL, "true") >>,
       SubSeq(ItemRows, 1, n), NULL)

ScopeSection ==
    MkSection("s2", "Scope of Work",
       << MkField("f9", "Summary", "Build", NULL, "false") >>, <<>>, <<>>, NULL)

\* a section with a field and a top-level table
TopDocs ==
    { [sections |-> <<
         MkSection("s1", "Pricing",
            << MkField("f1", "Currency", "EUR", NULL, fe) >>,
            << ItemsTable(n, sameId) >>, <<>>, NULL),
         ScopeSection >>]
      : fe \in Flags3, n \in 1..MaxRows, sameId \in BOOLEAN }

\* a section with a field and a subsection holding the table, the
\* subsection with or without a field of its own
SubDocs ==
    { [sections |-> <<
         MkSection("s1", "Pricing",
            << MkField("f1", "Currency", "EUR", NULL, fe) >>, <<>>,
            << MkSubsection("u1", "Delivery",
                  IF withField THEN << MkField("f2", "Incoterm", "FOB", NULL, "false") >>
                  ELSE <<>>,
                  << ItemsTable(n, TRUE) >>, NULL) >>, NULL),
         ScopeSection >>]
      : fe \in Flags3, n \in 1..MaxRows, withField \in BOOLEAN }

\* a questionnaire section: the subsection's table lists the questions
QuestionnaireDocs ==
    { [questionnaire |-> "true",
       sections |-> <<
         MkSection("questionnaire", "Questionnaire", <<>>, <<>>,
            << MkSubsection("quality", "Quality", <<>>,
                  << MkTable("t1", "Questions",
                        << MkColumn("question", "Question", "question", NULL, "false"),
                           MkColumn("response", "Response", "response", NULL, "true"),
                           MkColumn("remarks", "Remarks", "remarks", NULL, re) >>,
                        SubSeq(QuestionRows, 1, n), NULL) >>, NULL) >>, NULL),
         ScopeSection >>]
      : re \in Flags3, n \in 1..MaxRows }

RoundTripDocs == TopDocs \cup SubDocs \cup QuestionnaireDocs

\* the supplier the workbook is generated for, its token already stored
RoundTripSuppliers ==
    << [id |-> 1, email |-> "a@example.com", status |-> "invited", excelUUID |-> "uuid-1"] >>

InitRoundTrip ==
    /\ template \in RoundTripDocs
    /\ sqr = NoSqr
    /\ workbook = NoWorkbook
    /\ extracted = NoExtract
    /\ suppliers = RoundTripSuppliers
    /\ calls = <<>>
    /\ uuids = 1
    /\ responses = <<>>
    /\ applied = {}
    /\ lowestQuotes = NoLowest
    /\ EmptyStore

\* the workbook for the supplier, carrying the supplier's stored token
SerializeTemplate ==
    /\ workbook.status = "none"
    /\ workbook' = [status |-> "file",
                    sheets |-> WorkbookSheets(template,
                                  SupplierSheet(suppliers[1], suppliers[1].excelUUID))]
    /\ UNCHANGED <<template, sqr, extracted, lowestQuotes, storeVars>>
    /\ UNCHANGED tokenVars

\* every cell of every sheet passed through F
MapCells(sheets, F(_)) ==
    [i \in 1..Len(sheets) |->
        [sheets[i] EXCEPT !.rows =
            [r \in 1..Len(sheets[i].rows) |->
                [c \in 1..Len(sheets[i].rows[r]) |-> F(sheets[i].rows[r][c])]]]]

\* what a supplier may type into a cell: a number, a padded text, nothing
EnteredValues ==
    { [t |-> "n", s |-> "9.99"], [t |-> "s", s |-> " ok "], [t |-> "null", s |-> ""] }

Editing == workbook.status = "file" /\ extracted.status = "none"

\* the supplier fills in an unlocked cell of the protected sheet
SupplierEntersValue ==
    /\ Editing
    /\ \E i \in 1..Len(workbook.sheets) :
         \E r \in 1..Len(workbook.sheets[i].rows) :
           \E c \in 1..Len(workbook.sheets[i].rows[r]) :
             \E v \in EnteredValues :
               /\ ~workbook.sheets[i].rows[r][c].locked
               /\ workbook' = [workbook EXCEPT !.sheets[i].rows[r][c].t = v.t,
                                               !.sheets[i].rows[r][c].s = v.s]
    /\ UNCHANGED <<template, sqr, extracted, lowestQuotes, storeVars>>
    /\ UNCHANGED tokenVars

\* the supplier lifts the sheet protection and overwrites the locked values
TamperOverwriteLocked ==
    /\ Editing
    /\ workbook' = [workbook EXCEPT !.sheets =
          MapCells(@, LAMBDA cell : IF cell.locked /\ cell.ref # NoRef
                                    THEN [cell EXCEPT !.t = "s", !.s = "Hacked"]
                                    ELSE cell)]
    /\ UNCHANGED <<template, sqr, extracted, lowestQuotes, storeVars>>
    /\ UNCHANGED tokenVars

\* the supplier paints every value cell with the editable fill colour
TamperPaintGold ==
    /\ Editing
    /\ workbook' = [workbook EXCEPT !.sheets =
          MapCells(@, LAMBDA cell : IF cell.ref # NoRef
                                    THEN [cell EXCEPT !.fill = EditableFill]
                                    ELSE cell)]
    /\ UNCHANGED <<template, sqr, extracted, lowestQuotes, storeVars>>
    /\ UNCHANGED tokenVars

\* the supplier removes the fill colour of every value cell
TamperClearFill ==
    /\ Editing
    /\ workbook' = [workbook EXCEPT !.sheets =
          MapCells(@, LAMBDA cell : IF cell.ref # NoRef
                                    THEN [cell EXCEPT !.fill = ""]
                                    ELSE cell)]
    /\ UNCHANGED <<template, sqr, extracted, lowestQuotes, storeVars>>
    /\ UNCHANGED tokenVars

\* the supplier puts a bold subsection title and a (question, response,
\* remarks) row at the top of the Questionnaire sheet
TamperQuestionRows ==
    /\ Editing
    /\ \E i \in 1..Len(workbook.sheets) :
         /\ workbook.sheets[i].name = "Questionnaire"
         /\ ~ValueIs(GetCell(workbook.sheets[i].rows[1], 1), "Quality")
         /\ workbook' = [workbook EXCEPT !.sheets[i].rows =
               << BoldRow(<< StrCell("Quality") >>),
                  << StrCell("Q1"), StrCell("Hacked"), StrCell("Hacked") >> >> \o @]
    /\ UNCHANGED <<template, sqr, extracted, lowestQuotes, storeVars>>
    /\ UNCHANGED tokenVars

\* the texts the reconciler looks rows up by: subsection titles, column
\* headers, field labels
AllSubsections == UNION {Range(sec.subsections) : sec \in Range(template.sections)}

AllTables ==
    UNION {Range(sec.tables) : sec \in Range(template.sections)}
    \cup UNION {Range(sub.tables) : sub \in AllSubsections}

AllFields ==
    UNION {Range(sec.fields) : sec \in Range(template.sections)}
    \cup UNION {Range(sub.fields) : sub \in AllSubsections}

LookupTexts(kind) ==
    CASE kind = "title" -> {sub.title : sub \in AllSubsections}
      [] kind = "header" -> UNION {{col.header : col \in Range(t.columns)} : t \in AllTables}
      [] kind = "label" -> {f.label : f \in AllFields}

LookupKinds == {"title", "header", "label"}

\* the supplier retypes every subsection title, every column header or
\* every field label of the workbook, before any other edit
TamperEditLookupText ==
    /\ Editing
    /\ workbook.sheets = WorkbookSheets(template,
                             SupplierSheet(suppliers[1], suppliers[1].excelUUID))
    /\ \E kind \in LookupKinds :
         LET texts == LookupTexts(kind)
             edited == MapCells(workbook.sheets, LAMBDA cell :
                  IF cell.ref = NoRef /\ cell.t = "s" /\ cell.s \in texts
                     /\ (kind = "title" <=> (cell.bold /\ cell.fill # HeaderFill))
                  THEN [cell EXCEPT !.s = "Edited"]
                  ELSE cell)
         IN /\ edited # workbook.sheets
            /\ workbook' = [workbook EXCEPT !.sheets = edited]
    /\ UNCHANGED <<template, sqr, extracted, lowestQuotes, storeVars>>
    /\ UNCHANGED tokenVars

\* the supplier deletes the worksheet of a section
TamperRemoveSheet ==
    /\ Editing
    /\ \E i \in 1..Len(workbook.sheets) :
         /\ workbook.sheets[i].name \notin {"Instructions", "Supplier"}
         /\ workbook' = [workbook EXCEPT !.sheets =
               SelectSeq(@, LAMBDA sh : sh.name # workbook.sheets[i].name)]
    /\ UNCHANGED <<template, sqr, extracted, lowestQuotes, storeVars>>
    /\ UNCHANGED tokenVars

\* the upload is reconciled against the template
UploadWorkbook ==
    /\ Editing
    /\ extracted' = extractDataFromExcelBuffer(workbook.sheets, template, suppliers, "1")
    /\ UNCHANGED <<template, sqr, workbook, lowestQuotes, storeVars>>
    /\ UNCHANGED tokenVars

NextRoundTrip ==
    \/ SerializeTemplate
    \/ SupplierEntersValue
    \/ TamperOverwriteLocked
    \/ TamperPaintGold
    \/ TamperClearFill
    \/ TamperQuestionRows
    \/ TamperRemoveSheet
    \/ TamperEditLookupText
    \/ UploadWorkbook

SpecRoundTrip == InitRoundTrip /\ [][NextRoundTrip]_vars

---------------------------------------------------------------------------
(* Properties of the round trip *)

\* the cells written for a document leaf
RefCells(sheets, ref) ==
    UNION { UNION { {sheets[i].rows[r][c] : c \in {x \in 1..Len(sheets[i].rows[r]) :
                                                     sheets[i].rows[r][x].ref = ref}}
                    : r \in 1..Len(sheets[i].rows) }
            : i \in 1..Len(sheets) }

\* the text the uploaded workbook holds for a leaf, V(leaf)
ValueInWorkbook(sheets, ref, default) ==
    IF RefCells(sheets, ref) = {} THEN default
    ELSE formatCellValue(CHOOSE cell \in RefCells(sheets, ref) : TRUE)

\* a projected node with each editable leaf holding its value from V
WithValuesFields(fields, sheets) ==
    MapSeq(LAMBDA f : IF f.editableBySupplier = "true"
                      THEN [f EXCEPT !.value = ValueInWorkbook(sheets, <<"field", f.id>>, @)]
                      ELSE f, fields)

WithValuesTables(tables, sheets) ==
    MapSeq(LAMBDA t :
             LET editableKeys == {col.accessorKey :
                                    col \in {x \in Range(t.columns) :
                                               x.editableBySupplier = "true"}}
             IN [t EXCEPT !.data =
                    [i \in 1..Len(t.data) |->
                        [k \in DOMAIN t.data[i] |->
                            IF k \in editableKeys
                            THEN ValueInWorkbook(sheets, <<"cell", t.id, i, k>>, t.data[i][k])
                            ELSE t.data[i][k]]]],
           tables)

WithValues(sections, sheets) ==
    MapSeq(LAMBDA sec :
             [sec EXCEPT !.fields = WithValuesFields(@, sheets),
                         !.tables = WithValuesTables(@, sheets),
                         !.subsections =
                             MapSeq(LAMBDA sub :
                                      [sub EXCEPT !.fields = WithValuesFields(@, sheets),
                                                  !.tables = WithValuesTables(@, sheets)],
                                    @)],
           sections)

\* C1: reconciling the workbook serialised from D, whatever the supplier
\* did to it, yields project(D) with each editable leaf holding the value
\* found in its cell (both sides compared as projections).
C1_RoundTripIdentity ==
    extracted.status = "ok" =>
        processRFQSections(extracted.data)
            = WithValues(processRFQSections(template), workbook.sheets)

\* pairs <<original table, reconciled table>> of a reconciled document
TablePairs(original, reconciled) ==
    UNION { {<<original.sections[i].tables[j], reconciled.sections[i].tables[j]>>
               : j \in 1..Len(original.sections[i].tables)}
            \cup UNION { {<<original.sections[i].subsections[u].tables[j],
                            reconciled.sections[i].subsections[u].tables[j]>>
                            : j \in 1..Len(original.sections[i].subsections[u].tables)}
                         : u \in 1..Len(original.sections[i].subsections) }
            : i \in 1..Len(original.sections) }

NonEditableKept(pair) ==
    \A i \in 1..Len(pair[2].data) :
        i <= Len(pair[1].data) =>
            \A col \in Range(pair[1].columns) :
                Get(col, "editableBySupplier") # "true" =>
                    Get(pair[2].data[i], col.accessorKey) = Get(pair[1].data[i], col.accessorKey)

\* C2: in every reconciled table, row i keeps the original row i's value in
\* every column that is not flagged editable, whatever the cells contain.
C2_NonEditableColumnsKept ==
    extracted.status = "ok" =>
        \A pair \in TablePairs(template, extracted.data) : NonEditableKept(pair)

\* triples <<original field, reconciled field, rows of the section's sheet>>
FieldTriples(original, reconciled, sheets) ==
    UNION { LET rows == IF SheetIndex(sheets, original.sections[i].title) = 0 THEN <<>>
                        ELSE sheets[SheetIndex(sheets, original.sections[i].title)].rows
            IN {<<original.sections[i].fields[j], reconciled.sections[i].fields[j], rows>>
                  : j \in 1..Len(original.sections[i].fields)}
               \cup UNION { {<<original.sections[i].subsections[u].fields[j],
                               reconciled.sections[i].subsections[u].fields[j], rows>>
                               : j \in 1..Len(original.sections[i].subsections[u].fields)}
                            : u \in 1..Len(original.sections[i].subsections) }
            : i \in 1..Len(original.sections) }

\* a row of the sheet matches the field's label and its value cell carries
\* the editable fill
GoldMatch(field, rows) ==
    \E r \in EachRow(rows) :
        ValueIs(GetCell(rows[r], 1), field.label) /\ isGold(GetCell(rows[r], 2))

\* C10: a field's value is replaced only if the field is flagged editable
\* and the matched value cell carries the editable fill; a field whose flag
\* is false or absent keeps its original value.
C10_FieldReplacedOnlyIfEditableAndGold ==
    extracted.status = "ok" =>
        \A tr \in FieldTriples(template, extracted.data, workbook.sheets) :
            tr[2].value # tr[1].value =>
                Get(tr[1], "editableBySupplier") = "true" /\ GoldMatch(tr[1], tr[3])

\* the sections of the template whose worksheet is not in the workbook
MissingSheetSections ==
    {k \in 1..Len(template.sections) :
        SheetIndex(workbook.sheets, template.sections[k].title) = 0}

\* the sheets a section is reconciled from: the Supplier sheet and its own
OwnSheets(k) ==
    SelectSeq(workbook.sheets,
              LAMBDA sh : sh.name \in {"Supplier", template.sections[k].title})

\* C11: an upload with a valid token from which the worksheet of a section
\* has been deleted is reconciled successfully; the section without a
\* worksheet is returned as it is in the original document and every
\* other section is reconciled from its own worksheet as if nothing were
\* missing
C11_MissingSheetSkipped ==
    extracted.status # "none" =>
        /\ extracted.status = "ok"
        /\ \A k \in 1..Len(template.sections) :
              IF k \in MissingSheetSections
              THEN extracted.data.sections[k] = template.sections[k]
              ELSE extracted.data.sections[k]
                     = ExtractStructure(template, OwnSheets(k), "1").sections[k]

\* a sheet was missing at upload while another section took a value from
\* its own sheet
C11_Witness ==
    /\ extracted.status = "ok"
    /\ MissingSheetSections # {}
    /\ \E k \in 1..Len(template.sections) :
          /\ k \notin MissingSheetSections
          /\ extracted.data.sections[k] # template.sections[k]

\* the rows of the worksheet section i is reconciled from
LookupRows(i) ==
    IF SheetIndex(workbook.sheets, template.sections[i].title) = 0 THEN <<>>
    ELSE workbook.sheets[SheetIndex(workbook.sheets, template.sections[i].title)].rows

\* some row begins with the subsection title
TitleFound(rows, title) ==
    \E r \in EachRow(rows) : Trim(CellText(GetCell(rows[r], 1))) = title

\* some row holds the header or the accessorKey of a column of the table
HeaderFound(table, rows) ==
    \E r \in EachRow(rows) : \E col \in Range(table.columns) :
        Includes(rows[r], Get(col, "header")) \/ Includes(rows[r], Get(col, "accessorKey"))

\* some row begins with the field's label
LabelFound(field, rows) ==
    \E r \in EachRow(rows) : ValueIs(GetCell(rows[r], 1), Get(field, "label"))

FieldsKeptOnMiss(original, reconciled, rows) ==
    \A j \in 1..Len(original.fields) :
        ~LabelFound(original.fields[j], rows) => reconciled.fields[j] = original.fields[j]

\* a subsection's table is located by the subsection title
SubsectionKeptOnMiss(original, reconciled, rows) ==
    /\ FieldsKeptOnMiss(original, reconciled, rows)
    /\ \A j \in 1..Len(original.tables) :
          (~TitleFound(rows, original.title) \/ ~HeaderFound(original.tables[j], rows))
              => reconciled.tables[j] = original.tables[j]

\* C12: a field whose label, a table whose header, and a subsection table
\* whose subsection title is not in the uploaded worksheet comes back as in
\* the original document, with all its rows
C12_LookupMissKeepsOriginal ==
    extracted.status = "ok" =>
        \A i \in 1..Len(template.sections) :
            LET original == template.sections[i]
                reconciled == extracted.data.sections[i]
                rows == LookupRows(i)
            IN /\ FieldsKeptOnMiss(original, reconciled, rows)
               /\ \A j \in 1..Len(original.tables) :
                     ~HeaderFound(original.tables[j], rows)
                         => reconciled.tables[j] = original.tables[j]
               /\ \A u \in 1..Len(original.subsections) :
                     SubsectionKeptOnMiss(original.subsections[u],
                                          reconciled.subsections[u], rows)

---------------------------------------------------------------------------
(* Tokens: workbooks are generated, sent, downloaded and uploaded while    *)
(* other requests on the same RFQ run in between                           *)

MaxCalls == 3
MaxResponses == 2

\* generateUUID: a value not produced before
UuidNames ==
    << "uuid-1", "uuid-2", "uuid-3", "uuid-4", "uuid-5",
       "uuid-6", "uuid-7", "uuid-8", "uuid-9", "uuid-10" >>

generateUUID(n) == UuidNames[n]

\* the template the RFQ was created from: one section, one editable field
TokenTemplate ==
    [sections |-> <<
       MkSection("s1", "Pricing",
          << MkField("f1", "Unit Price", "", NULL, "true") >>, <<>>, <<>>, NULL) >>]

\* rfq.suppliers as stored, before any workbook has been generated
TokenSuppliers ==
    << [id |-> 1, email |-> "a@example.com", status |-> "pending", excelUUID |-> NULL],
       [id |-> 2, email |-> "b@example.com", status |-> "pending", excelUUID |-> NULL] >>

SupplierNumbers == {1, 2}

\* how the caller passes supplierId to generateAndSendExcel: the stored
\* number, its string, or not at all
IdArgs == {"number", "string", "undefined"}

Init ==
    /\ template = TokenTemplate
    /\ sqr = [status |-> "draft", supplierId |-> 1,
              sections |-> processRFQSections(TokenTemplate)]
    /\ workbook = NoWorkbook
    /\ extracted = NoExtract
    /\ suppliers = TokenSuppliers
    /\ calls = <<>>
    /\ uuids = 0
    /\ responses = <<>>
    /\ applied = {}
    /\ lowestQuotes = NoLowest
    /\ EmptyStore

\* a request in progress or finished
Call(op, pc, sup, arg, snap) ==
    [op |-> op, pc |-> pc, sup |-> sup, arg |-> arg, snap |-> snap,
     token |-> NULL, after |-> {}]

IsGeneration(call) == call.op \in {"send", "download"}

\* generateRFQExcel has returned
Generated(call) == IsGeneration(call) /\ call.pc \in {"stored", "done"}

\* The workbook has reached the supplier: the download endpoint streams the
\* generated file.  A "send" call never delivers its file: sendInvitationEmail
\* reads rfqData only and ignores data.excelFilePath, so the e-mail of
\* generateAndSendExcel goes out without an attachment.
Delivered(call) ==
    call.op = "download" /\ call.pc = "stored"

\* the calls whose workbook generation has already returned
GeneratedCalls == {c \in 1..Len(calls) : Generated(calls[c])}

\* storeSupplierUUID: load the RFQ, set the supplier's excelUUID, save
storeSupplierUUID(sups, supplierId, uuid) ==
    LET i == FindSupplier(sups, supplierId)
    IN IF i = 0 THEN sups ELSE [sups EXCEPT ![i].excelUUID = uuid]

\* generateAndSendExcel starts: RFQService.findById
StartGenerateAndSendExcel ==
    /\ Len(calls) < MaxCalls
    /\ \E s \in SupplierNumbers : \E arg \in IdArgs :
         /\ arg = "undefined" => s = 1
         /\ calls' = Append(calls,
               [Call("send", "loaded", s, arg, suppliers) EXCEPT !.after = GeneratedCalls])
    /\ UNCHANGED <<suppliers, uuids, responses, applied>>
    /\ UNCHANGED docVars

\* getSupplierExcelFile: the RFQ is loaded and, the file never being found
\* under the name looked up, a workbook is generated without a template
StartGetSupplierExcelFile ==
    /\ Len(calls) < MaxCalls
    /\ \E s \in SupplierNumbers :
         calls' = Append(calls,
               [Call("download", "loaded", s, "string", suppliers) EXCEPT !.after = GeneratedCalls])
    /\ UNCHANGED <<suppliers, uuids, responses, applied>>
    /\ UNCHANGED docVars

\* generateRFQExcel, first part: addSupplierSheet writes the sheet with a
\* new UUID and stores the UUID on the supplier
AddSupplierSheet ==
    /\ \E c \in 1..Len(calls) :
         /\ IsGeneration(calls[c])
         /\ calls[c].pc = "loaded"
         /\ IF calls[c].arg = "undefined"
            THEN /\ calls' = [calls EXCEPT ![c].pc = "sheet"]
                 /\ UNCHANGED <<suppliers, uuids>>
            ELSE /\ uuids' = uuids + 1
                 /\ calls' = [calls EXCEPT ![c].pc = "sheet",
                                           ![c].token = generateUUID(uuids + 1)]
                 /\ suppliers' = storeSupplierUUID(suppliers, IdString(calls[c].sup),
                                                   generateUUID(uuids + 1))
    /\ UNCHANGED <<responses, applied>>
    /\ UNCHANGED docVars

\* generateRFQExcel, last part: storeExcelForSupplier files the workbook
\* under another new UUID and stores that UUID on the supplier
StoreExcelForSupplier ==
    /\ \E c \in 1..Len(calls) :
         /\ IsGeneration(calls[c])
         /\ calls[c].pc = "sheet"
         /\ calls' = [calls EXCEPT ![c].pc = "stored"]
         /\ IF calls[c].arg = "undefined"
            THEN UNCHANGED <<suppliers, uuids>>
            ELSE /\ uuids' = uuids + 1
                 /\ suppliers' = storeSupplierUUID(suppliers, IdString(calls[c].sup),
                                                   generateUUID(uuids + 1))
    /\ UNCHANGED <<responses, applied>>
    /\ UNCHANGED docVars

\* a suppliers array written back from the copy a call loaded earlier, the
\* target supplier replaced by { ...supplier, status }: the copy of the
\* subdocument either carries the loaded excelUUID or carries none
StaleSuppliers(snap, target, status, carried) ==
    [i \in 1..Len(snap) |->
        IF snap[i].id = target
        THEN [snap[i] EXCEPT !.status = status,
                             !.excelUUID = IF carried THEN @ ELSE NULL]
        ELSE snap[i]]

\* generateAndSendExcel, after generateRFQExcel: the e-mail goes out and,
\* when rfq.suppliers.find(s => s.id === supplierId) found the supplier,
\* update(rfqId, { suppliers: rfq.suppliers.map(...) }) marks it invited
SendAndMarkInvited ==
    /\ \E c \in 1..Len(calls) :
         /\ calls[c].op = "send"
         /\ calls[c].pc = "stored"
         /\ calls' = [calls EXCEPT ![c].pc = "done"]
         /\ IF calls[c].arg = "number"
            THEN \E carried \in BOOLEAN :
                   suppliers' = StaleSuppliers(calls[c].snap, calls[c].sup, "invited", carried)
            ELSE UNCHANGED suppliers
    /\ UNCHANGED <<uuids, responses, applied>>
    /\ UNCHANGED docVars

\* submitSQR: the SQR is saved as submitted
StartSubmitSQR ==
    /\ Len(calls) < MaxCalls
    /\ sqr' = [sqr EXCEPT !.status = "submitted"]
    /\ calls' = Append(calls, Call("submit", "saved", sqr.supplierId, "", <<>>))
    /\ UNCHANGED <<suppliers, uuids, responses, applied>>
    /\ UNCHANGED <<template, workbook, extracted, lowestQuotes, storeVars>>

\* updateRFQWithSupplierResponse: rfqService.findById
LoadRFQForResponse ==
    /\ \E c \in 1..Len(calls) :
         /\ calls[c].op = "submit"
         /\ calls[c].pc = "saved"
         /\ calls' = [calls EXCEPT ![c].pc = "loaded", ![c].snap = suppliers]
    /\ UNCHANGED <<suppliers, uuids, responses, applied>>
    /\ UNCHANGED docVars

\* updateRFQWithSupplierResponse: rfqService.update(rfqId, { suppliers })
updateRFQWithSupplierResponse ==
    /\ \E c \in 1..Len(calls) :
         /\ calls[c].op = "submit"
         /\ calls[c].pc = "loaded"
         /\ calls' = [calls EXCEPT ![c].pc = "done"]
         /\ \E carried \in BOOLEAN :
              suppliers' = StaleSuppliers(calls[c].snap, calls[c].sup, "submitted", carried)
    /\ UNCHANGED <<uuids, responses, applied>>
    /\ UNCHANGED docVars

\* updateSupplierStatus: the supplier's status is set on the loaded RFQ,
\* which is saved
updateSupplierStatus ==
    /\ Len(calls) < MaxCalls
    /\ \E s \in SupplierNumbers :
         /\ calls' = Append(calls, Call("status", "done", s, "selected", <<>>))
         /\ suppliers' = [suppliers EXCEPT ![FindSupplier(suppliers, IdString(s))].status = "selected"]
    /\ UNCHANGED <<uuids, responses, applied>>
    /\ UNCHANGED docVars

\* the sheets of the workbook a generation call has produced
GeneralDetailsSheet ==
    [name |-> "General Details",
     rows |-> << << StrCell("Field"), StrCell("Value") >>,
                 << StrCell("Title"), StrCell("") >>,
                 << StrCell("Description"), StrCell("") >>,
                 << StrCell("Status"), StrCell("") >>,
                 << StrCell("Due Date"), StrCell("") >> >>]

GeneratedSheets(call) ==
    << InstructionsSheet >>
    \o (IF call.token = NULL THEN <<>>
        ELSE << SupplierSheet(call.snap[FindSupplier(call.snap, IdString(call.sup))],
                              call.token) >>)
    \o (IF call.op = "send" THEN generateSheetsFromTemplate(template)
        ELSE << GeneralDetailsSheet >>)

\* what the supplier does to the workbook before uploading it
Variants == {"asis", "forged", "nosheet", "norow"}

ForgedUuid == "forged-uuid"

IsUuidRow(row) == ValueIs(GetCell(row, 1), "Verification UUID")

\* the supplier's answers typed into every unlocked cell
FilledSheets(sheets) ==
    MapCells(sheets, LAMBDA cell : IF cell.locked THEN cell
                                   ELSE [cell EXCEPT !.t = "n", !.s = "9.99"])

UploadedSheets(call, variant) ==
    LET sheets == FilledSheets(GeneratedSheets(call))
    IN CASE variant = "asis" -> sheets
         [] variant = "nosheet" -> SelectSeq(sheets, LAMBDA sh : sh.name # "Supplier")
         [] variant = "norow" ->
              [i \in 1..Len(sheets) |->
                 IF sheets[i].name # "Supplier" THEN sheets[i]
                 ELSE [sheets[i] EXCEPT !.rows = SelectSeq(@, LAMBDA row : ~IsUuidRow(row))]]
         [] variant = "forged" ->
              [i \in 1..Len(sheets) |->
                 IF sheets[i].name # "Supplier" THEN sheets[i]
                 ELSE [sheets[i] EXCEPT !.rows =
                         [r \in 1..Len(sheets[i].rows) |->
                            IF IsUuidRow(sheets[i].rows[r])
                            THEN SupplierDetailRow("Verification UUID", ForgedUuid)
                            ELSE sheets[i].rows[r]]]]

\* history: the token an uploaded workbook carries
UploadedToken(call, variant) ==
    CASE variant = "asis" -> call.token
      [] variant = "forged" -> IF call.token = NULL THEN NULL ELSE ForgedUuid
      [] OTHER -> NULL

\* history: that token is the one stored for the supplier
TokenIsStored(token, sups, s) ==
    /\ token # NULL
    /\ sups[FindSupplier(sups, IdString(s))].excelUUID = token

\* storeSupplierResponse: the next version of the supplier's quote request
newVersion(quotes, supplierId) ==
    LET mine == {quotes[i].version : i \in {k \in 1..Len(quotes) : quotes[k].supplierId = supplierId}}
    IN IF mine = {} THEN 1 ELSE SetMax(mine) + 1

\* POST .../process-excel: processSupplierExcel reconciles the upload and
\* storeSupplierResponse stores it; an error from the first ends the
\* request with status 500
processSupplierExcel ==
    /\ Len(calls) < MaxCalls
    /\ Len(responses) < MaxResponses
    /\ \E c \in 1..Len(calls) : \E variant \in Variants : \E s \in SupplierNumbers :
         /\ Delivered(calls[c])
         /\ LET sheets == UploadedSheets(calls[c], variant)
                token == UploadedToken(calls[c], variant)
                result == extractDataFromExcelBuffer(sheets, template, suppliers, IdString(s))
            IN /\ extracted' = result
               /\ calls' = Append(calls,
                     [Call("upload", "done", s, variant, <<>>) EXCEPT !.token = token])
               /\ IF result.status = "ok"
                  THEN /\ responses' = Append(responses,
                             [supplierId |-> IdString(s),
                              version |-> newVersion(responses, IdString(s)),
                              status |-> "submitted",
                              responseData |-> result.data])
                       /\ suppliers' = [suppliers EXCEPT
                             ![FindSupplier(suppliers, IdString(s))].status = "responded"]
                       /\ applied' = applied \cup
                             {[via |-> "rfq", supplier |-> s, variant |-> variant,
                               verified |-> TokenIsStored(token, suppliers, s)]}
                  ELSE UNCHANGED <<responses, suppliers, applied>>
    /\ UNCHANGED uuids
    /\ UNCHANGED <<template, sqr, workbook, lowestQuotes, storeVars>>

\* a workbook the supplier put together without any generated file: the
\* sheets of the sections, filled in, and no Supplier sheet
CraftedSheets ==
    << InstructionsSheet >> \o FilledSheets(generateSheetsFromTemplate(template))

\* POST .../upload-excel: importSQRFromExcel writes the values of the
\* workbook into the SQR and saves it as a draft; the file is a delivered
\* workbook (c > 0) or a crafted one (c = 0)
uploadExcel ==
    /\ Len(calls) < MaxCalls
    /\ \E c \in 0..Len(calls) : \E variant \in Variants :
         /\ IF c = 0 THEN variant = "nosheet" ELSE Delivered(calls[c])
         /\ LET sheets == IF c = 0 THEN CraftedSheets
                          ELSE UploadedSheets(calls[c], variant)
                token == IF c = 0 THEN NULL ELSE UploadedToken(calls[c], variant)
                imported == ImportSheets(sqr.sections, sheets)
            IN /\ sqr' = [sqr EXCEPT !.sections = imported, !.status = "draft"]
               /\ calls' = Append(calls,
                     [Call("import", "done", sqr.supplierId, variant, <<>>) EXCEPT !.token = token])
               /\ applied' = IF imported = sqr.sections THEN applied
                             ELSE applied \cup
                                    {[via |-> "sqr", supplier |-> sqr.supplierId, variant |-> variant,
                                      verified |-> TokenIsStored(token, suppliers, sqr.supplierId)]}
    /\ UNCHANGED <<suppliers, uuids, responses>>
    /\ UNCHANGED <<template, workbook, extracted, lowestQuotes, storeVars>>

Next ==
    \/ StartGenerateAndSendExcel
    \/ StartGetSupplierExcelFile
    \/ AddSupplierSheet
    \/ StoreExcelForSupplier
    \/ SendAndMarkInvited
    \/ StartSubmitSQR
    \/ LoadRFQForResponse
    \/ updateRFQWithSupplierResponse
    \/ updateSupplierStatus
    \/ processSupplierExcel
    \/ uploadExcel

Spec == Init /\ [][Next]_vars

---------------------------------------------------------------------------
(* Properties of the token *)

\* the call generated a workbook for a supplier of the RFQ
GeneratedFor(c, s) ==
    /\ Generated(calls[c])
    /\ calls[c].arg # "undefined"
    /\ calls[c].sup = s

\* the workbook of call c, uploaded as generated, passes verification
Verifies(c) ==
    verifySupplierUUID(GeneratedSheets(calls[c]), suppliers, IdString(calls[c].sup))

\* another call has begun generating a workbook for the same supplier
OtherGeneration(c) ==
    \E d \in 1..Len(calls) :
        /\ d # c
        /\ IsGeneration(calls[d])
        /\ calls[d].arg # "undefined"
        /\ calls[d].sup = calls[c].sup

\* C4: once generateRFQExcel has returned a workbook for a supplier and no
\* other generation for that supplier has happened, the stored token is
\* the Verification UUID of the workbook's Supplier sheet: the workbook,
\* uploaded unmodified, passes verification
C4_StoredTokenIsEmbedded ==
    \A c \in 1..Len(calls) : \A s \in SupplierNumbers :
        (GeneratedFor(c, s) /\ ~OtherGeneration(c)) =>
            /\ suppliers[FindSupplier(suppliers, IdString(s))].excelUUID = calls[c].token
            /\ Verifies(c)

\* C5: when a second workbook has been generated for a supplier after a
\* first one, the first workbook no longer passes verification
C5_SecondGenerationInvalidatesFirst ==
    \A c2 \in 1..Len(calls) : \A s \in SupplierNumbers :
        GeneratedFor(c2, s) =>
            \A c1 \in calls[c2].after : GeneratedFor(c1, s) => ~Verifies(c1)

\* C6: every upload whose values reached stored data carried the token
\* stored for the supplier at that moment
C6_TokenCheckedOnEveryUpload ==
    \A a \in applied : a.verified

\* an RFQ-level upload step whose workbook does not carry the stored token
FailingUploadStep ==
    /\ Len(calls') = Len(calls) + 1
    /\ calls'[Len(calls')].op = "upload"
    /\ ~TokenIsStored(calls'[Len(calls')].token, suppliers, calls'[Len(calls')].sup)

\* C7: an RFQ-level upload whose token is wrong, whose Supplier sheet or
\* Verification UUID row is missing, or for which no token is stored ends
\* in an error without data, stores no quote request and leaves the RFQ,
\* its suppliers and the SQR as they were
C7_FailedVerificationAppliesNothing ==
    [][FailingUploadStep =>
         /\ extracted' = [status |-> "error"]
         /\ UNCHANGED <<suppliers, responses, applied, template, sqr>>]_vars

\* a workbook with a hand-edited UUID row has been uploaded and rejected
\* while the supplier held a stored token
C7_Witness ==
    /\ Len(calls) > 0
    /\ calls[Len(calls)].op = "upload"
    /\ calls[Len(calls)].arg = "forged"
    /\ calls[Len(calls)].token = ForgedUuid
    /\ suppliers[FindSupplier(suppliers, IdString(calls[Len(calls)].sup))].excelUUID # NULL
    /\ extracted = [status |-> "error"]
    /\ responses = <<>>

\* c and d generated workbooks for the same supplier at the same time
Concurrent(c, d) ==
    /\ c # d
    /\ calls[c].sup = calls[d].sup
    /\ c \notin calls[d].after
    /\ d \notin calls[c].after

\* C8: when two concurrent generations for a supplier have both returned,
\* exactly one of the two workbooks passes verification
C8_LastGeneratedTokenWins ==
    \A c \in 1..Len(calls) : \A d \in 1..Len(calls) : \A s \in SupplierNumbers :
        (GeneratedFor(c, s) /\ GeneratedFor(d, s) /\ Concurrent(c, d)) =>
            (Verifies(c) # Verifies(d))

\* a step of generateRFQExcel for supplier s that stores a token
TokenWriteFor(s) ==
    \E c \in 1..Len(calls) :
        /\ IsGeneration(calls[c])
        /\ calls[c].sup = s
        /\ calls[c].pc \in {"loaded", "sheet"}
        /\ calls'[c].pc # calls[c].pc

\* C9: the stored token of a supplier changes only in a step that
\* serializes a workbook for that supplier
C9_TokenWrittenOnlyBySerialization ==
    [][\A i \in 1..Len(suppliers) :
          suppliers'[i].excelUUID # suppliers[i].excelUUID => TokenWriteFor(suppliers[i].id)]_vars

---------------------------------------------------------------------------
(* Lowest offer over the latest quote requests of the suppliers            *)
(* (getLowestQuotedValueForEachItem)                                       *)

MaxQuotes == 3

\* what a reconciled unit-price holds: a price, an empty or blank text, a
\* text that is no number, or nothing at all
UnitPrices == {"12.00", "9.50", "", " ", "abc", NULL}

\* what a commercial-term or questionnaire response holds
OfferValues == {"30", "10"}

\* Number(v), in hundredths; nan for a text that is no number
Number(v) ==
    CASE v = "12.00" -> [nan |-> FALSE, n |-> 1200]
      [] v = "9.50" -> [nan |-> FALSE, n |-> 950]
      [] v = "30" -> [nan |-> FALSE, n |-> 3000]
      [] v = "10" -> [nan |-> FALSE, n |-> 1000]
      [] v = "" \/ v = " " -> [nan |-> FALSE, n |-> 0]
      [] OTHER -> [nan |-> TRUE, n |-> 0]

\* a < b on numbers: false whenever one of them is NaN
Less(a, b) == ~a.nan /\ ~b.nan /\ a.n < b.n

\* the latest quote request of supplier k
QuoteRequest(k, price, term, answer) ==
    [supplierId |-> IdString(k),
     commercialTable |-> [tables |-> <<
        [data |-> << PutOpt([id |-> "item-1"], "unit-price", price) >>] >>],
     commercialTermsTable |-> [tables |-> <<
        [data |-> << Put([id |-> "term-1"], "user-response", term) >>] >>],
     questionnaire |-> [subsections |-> <<
        [id |-> "quality",
         tables |-> << [data |-> << [id |-> "q-1", response |-> answer] >>] >>] >>]]

QuoteSets ==
    [1..MaxQuotes -> UnitPrices] \X [1..MaxQuotes -> OfferValues] \X [1..MaxQuotes -> OfferValues]

InitLowest ==
    /\ \E q \in QuoteSets :
         responses = [k \in 1..MaxQuotes |-> QuoteRequest(k, q[1][k], q[2][k], q[3][k])]
    /\ template = TokenTemplate
    /\ sqr = NoSqr
    /\ workbook = NoWorkbook
    /\ extracted = NoExtract
    /\ suppliers = <<>>
    /\ calls = <<>>
    /\ uuids = 0
    /\ applied = {}
    /\ lowestQuotes = NoLowest
    /\ EmptyStore

\* the records pushed under an id, in the order of the quotes
ItemsById(supplierQuotes, id) ==
    Concat([k \in 1..Len(supplierQuotes) |->
        LET data == supplierQuotes[k].commercialTable.tables[1].data
            priced == SelectSeq(data, LAMBDA item :
                         /\ item.id = id
                         /\ Get(item, "unit-price") # NULL
                         /\ Get(item, "unit-price") # "")
        IN MapSeq(LAMBDA item : [id |-> item.id,
                                 baseLine |-> Number(item["unit-price"]),
                                 supplierId |-> supplierQuotes[k].supplierId],
                  priced)])

\* every id that receives an entry in itemsById
GroupIds(supplierQuotes) ==
    UNION {  {item.id : item \in {x \in Range(supplierQuotes[k].commercialTable.tables[1].data) :
                                     Get(x, "unit-price") # NULL /\ Get(x, "unit-price") # ""}}
             \cup {term.id : term \in Range(supplierQuotes[k].commercialTermsTable.tables[1].data)}
             \cup UNION {{q.id : q \in Range(sub.tables[1].data)}
                           : sub \in Range(supplierQuotes[k].questionnaire.subsections)}
           : k \in 1..Len(supplierQuotes) }

\* items.reduce((lowest, current) => current.baseLine < lowest.baseLine ?
\* current : lowest, items[0]); undefined for an empty array
LowestOf(items) ==
    LET F[i \in 0..Len(items)] ==
            IF i = 0 THEN (IF Len(items) = 0 THEN [id |-> NULL] ELSE items[1])
            ELSE IF Less(items[i].baseLine, F[i - 1].baseLine) THEN items[i] ELSE F[i - 1]
    IN F[Len(items)]

getLowestQuotedValueForEachItem(supplierQuotes) ==
    [status |-> "ok",
     items |-> [id \in GroupIds(supplierQuotes) |-> LowestOf(ItemsById(supplierQuotes, id))],
     commercialTerms |->
        MapSeq(LAMBDA term : [id |-> term.id, baseLine |-> term["user-response"],
                              supplierId |-> supplierQuotes[1].supplierId],
               supplierQuotes[1].commercialTermsTable.tables[1].data),
     questionnaires |->
        [sid \in {sub.id : sub \in Range(supplierQuotes[1].questionnaire.subsections)} |->
           LET sub == CHOOSE x \in Range(supplierQuotes[1].questionnaire.subsections) : x.id = sid
           IN [id |-> sid,
               questions |-> MapSeq(LAMBDA q : [id |-> q.id, baseLine |-> q.response,
                                                supplierId |-> supplierQuotes[1].supplierId],
                                    sub.tables[1].data)]]]

\* storeSupplierResponse / the analysis endpoint compute the lowest quotes
\* from the latest quote requests
ComputeLowestQuotes ==
    /\ lowestQuotes.status = "none"
    /\ Len(responses) > 0
    /\ lowestQuotes' = getLowestQuotedValueForEachItem(responses)
    /\ UNCHANGED <<template, sqr, workbook, extracted, storeVars>>
    /\ UNCHANGED tokenVars

NextLowest == ComputeLowestQuotes

SpecLowest == InitLowest /\ [][NextLowest]_vars

---------------------------------------------------------------------------
(* Properties of the lowest offer *)

\* a unit price that takes part in the comparison
NumericPrice(v) == v # NULL /\ Trim(v) # "" /\ v # " " /\ ~Number(v).nan

\* <<supplier, price>> for every numeric offer made for an item id
ItemOffers(id) ==
    UNION {{<<responses[k].supplierId, Number(item["unit-price"]).n>> :
              item \in {x \in Range(responses[k].commercialTable.tables[1].data) :
                           x.id = id /\ NumericPrice(Get(x, "unit-price"))}}
             : k \in 1..Len(responses)}

ItemIds ==
    UNION {{item.id : item \in Range(responses[k].commercialTable.tables[1].data)}
             : k \in 1..Len(responses)}

\* the record is a smallest offer of the set, with the supplier who made it
IsLowest(record, offers) ==
    /\ ~record.baseLine.nan
    /\ <<record.supplierId, record.baseLine.n>> \in offers
    /\ \A o \in offers : record.baseLine.n <= o[2]

\* C13: for each line-item id the lowest offer is the numerically smallest
\* unit price among the suppliers that gave a numeric price, with that
\* supplier; a missing, blank or non-numeric price is never selected and
\* never counted as zero
C13_LowestItemOffer ==
    lowestQuotes.status = "ok" =>
        \A id \in ItemIds :
            /\ ItemOffers(id) # {} =>
                  /\ id \in DOMAIN lowestQuotes.items
                  /\ lowestQuotes.items[id].id = id
                  /\ IsLowest(lowestQuotes.items[id], ItemOffers(id))
            /\ ItemOffers(id) = {} =>
                  (id \in DOMAIN lowestQuotes.items => lowestQuotes.items[id].id = NULL)

\* <<supplier, value>> for every commercial-term response with the id
TermOffers(id) ==
    UNION {{<<responses[k].supplierId, Number(term["user-response"]).n>> :
              term \in {x \in Range(responses[k].commercialTermsTable.tables[1].data) :
                           x.id = id}}
             : k \in 1..Len(responses)}

\* <<supplier, value>> for every questionnaire response with the id
QuestionOffers(id) ==
    UNION {{<<responses[k].supplierId, Number(q.response).n>> :
              q \in UNION {{x \in Range(sub.tables[1].data) : x.id = id}
                             : sub \in Range(responses[k].questionnaire.subsections)}}
             : k \in 1..Len(responses)}

\* the entry carries a smallest value of the set and the supplier who gave it
IsLowestEntry(entry, offers) ==
    /\ <<entry.supplierId, Number(entry.baseLine).n>> \in offers
    /\ \A o \in offers : Number(entry.baseLine).n <= o[2]

\* C14: for each commercial-term and questionnaire entry id the lowest
\* offer is the numerically smallest value among the entries of all
\* suppliers with that id, with the supplier who gave it
C14_LowestEntryOffer ==
    lowestQuotes.status = "ok" =>
        /\ \A i \in 1..Len(lowestQuotes.commercialTerms) :
              IsLowestEntry(lowestQuotes.commercialTerms[i],
                            TermOffers(lowestQuotes.commercialTerms[i].id))
        /\ \A sid \in DOMAIN lowestQuotes.questionnaires :
              \A i \in 1..Len(lowestQuotes.questionnaires[sid].questions) :
                 IsLowestEntry(lowestQuotes.questionnaires[sid].questions[i],
                               QuestionOffers(lowestQuotes.questionnaires[sid].questions[i].id))

---------------------------------------------------------------------------
(* Properties of the projection of templates with optional parts *)

\* C15: projecting a document that is itself the result of a projection
\* returns the same document: project(project(D)) = project(D).
C15_ProjectionIdempotent ==
    sqr.status = "draft"
        => processRFQSections([sections |-> sqr.sections]) = sqr.sections

\* C15 witness: a projection that changed its input (a default value
\* resolved into value, missing arrays filled in), still holds a field and
\* a table, and is returned unchanged by a second projection.
C15_Witness ==
    /\ sqr.status = "draft"
    /\ sqr.sections # template.sections
    /\ Has(template.sections[1], "fields")
    /\ Has(template.sections[1].fields[1], "defaultValue")
    /\ Len(sqr.sections[1].fields) = 1
    /\ Len(sqr.sections[1].tables) = 1
    /\ processRFQSections([sections |-> sqr.sections]) = sqr.sections

\* defaultValue ?? value ?? '' : the first of the two that is present
NullishValue(field) ==
    IF Has(field, "defaultValue") THEN field.defaultValue
    ELSE IF Has(field, "value") THEN field.value ELSE ""

\* the value cells the serialiser wrote for the field with this id
FieldCellsOf(sheets, id) ==
    UNION { UNION { {sheets[i].rows[r][c] : c \in {x \in 1..Len(sheets[i].rows[r]) :
                                                   sheets[i].rows[r][x].ref = <<"field", id>>}}
                    : r \in 1..Len(sheets[i].rows) }
            : i \in 1..Len(sheets) }

\* C16: the projected value of a visible field is its defaultValue whenever
\* that is present (the empty string included), otherwise its value when
\* present, otherwise the empty string; the serialiser writes the same value
\* into the field's cell.
C16_DefaultValueWins ==
    Has(template.sections[1], "fields") =>
        LET field == template.sections[1].fields[1]
        IN  /\ sqr.status = "draft"
                => sqr.sections[1].fields[1].value = NullishValue(field)
            /\ workbook.status = "generated"
                => \A cell \in FieldCellsOf(workbook.sheets, field.id) :
                      CellText(cell) = NullishValue(field)

\* C17: the projector raises on no input: a template whose optional parts
\* are missing (a section without fields, subsections or tables, a table
\* without columns or data) is projected into a document that holds empty
\* arrays in their place.
C17_ProjectionNeverRaises ==
    sqr.status # "none" =>
        /\ sqr.status = "draft"
        /\ \A i \in 1..Len(sqr.sections) :
              /\ {"fields", "subsections", "tables"} \subseteq DOMAIN sqr.sections[i]
              /\ \A t \in Range(sqr.sections[i].tables) :
                    {"columns", "data"} \subseteq DOMAIN t

\* the cells of every sheet of a workbook
CellsOf(sheets) ==
    UNION { UNION { Range(sheets[i].rows[r]) : r \in 1..Len(sheets[i].rows) }
            : i \in 1..Len(sheets) }

OptionalSubsections == UNION {Range(Arr(sec, "subsections")) : sec \in Range(template.sections)}
OptionalFields == UNION {Range(Arr(sec, "fields")) : sec \in Range(template.sections)}
OptionalColumns ==
    UNION {Range(Arr(t, "columns")) :
             t \in UNION {Range(Arr(o, "tables")) :
                            o \in Range(template.sections) \cup OptionalSubsections}}

\* the cell is the value cell of a field or column flagged editableBySupplier
OnEditableLeaf(cell) ==
    /\ cell.ref # NoRef
    /\ \/ /\ cell.ref[1] = "field"
          /\ \E f \in OptionalFields :
                f.id = cell.ref[2] /\ Get(f, "editableBySupplier") = "true"
       \/ /\ cell.ref[1] \in {"cell", "input"}
          /\ \E col \in OptionalColumns :
                /\ col.accessorKey = cell.ref[Len(cell.ref)]
                /\ Get(col, "editableBySupplier") = "true"

\* C18: in the sheets built from a template a value cell is unlocked and
\* carries the editable fill exactly when its field or column is flagged
\* editableBySupplier; every other cell (label, header, title, non-editable
\* value) is locked and does not carry the editable fill.
C18_UnlockedIffEditable ==
    workbook.status = "generated" =>
        \A cell \in CellsOf(workbook.sheets) :
            /\ cell.locked = ~OnEditableLeaf(cell)
            /\ (cell.fill = EditableFill) = OnEditableLeaf(cell)

\* C18 witness: a generated sheet holding an unlocked field cell, an unlocked
\* data cell, an unlocked input cell and locked value cells next to them.
C18_Witness ==
    /\ workbook.status = "generated"
    /\ \A tag \in {"field", "cell", "input"} :
          \E cell \in CellsOf(workbook.sheets) :
             cell.ref # NoRef /\ cell.ref[1] = tag /\ ~cell.locked
                /\ cell.fill = EditableFill
    /\ \A tag \in {"cell", "input"} :
          \E cell \in CellsOf(workbook.sheets) :
             cell.ref # NoRef /\ cell.ref[1] = tag /\ cell.locked /\ cell.fill = ""

\* the allowed values of the list validation on a data cell, <<>> for none
ListOn(table, row, column) ==
    LET found == {v \in workbook.validations :
                    v.kind = "list" /\ v.table = table /\ v.row = row /\ v.column = column}
    IN IF found = {} THEN <<>> ELSE (CHOOSE v \in found : TRUE).options

\* row options first, then column options, then nothing
OptionsByPriority(column, rowData) ==
    IF Len(Arr(rowData, "options")) > 0 THEN rowData.options
    ELSE Arr(column, "options")

\* C19: the dropdown on the cell of an editable response column, in a row
\* that is a single- or multi-select question, offers the row's own options
\* when the row has some, otherwise the column's options when the column has
\* some, and there is no dropdown only when neither exists.
C19_DropdownOptionPriority ==
    (workbook.status = "generated" /\ template \in DropdownDocs) =>
        LET table == template.sections[1].tables[1]
            column == table.columns[2]
        IN  \A i \in 1..Len(table.data) :
               (/\ Get(column, "editableBySupplier") = "true"
                /\ column.id = "response"
                /\ table.data[i].type \in {"single-select", "multi-select"})
               => ListOn(table.id, i, column.id) = OptionsByPriority(column, table.data[i])

---------------------------------------------------------------------------
(* Row values and the column's accessorKey (round trip) *)

\* the workbook is as the serialiser wrote it
Pristine ==
    /\ workbook.status = "file"
    /\ workbook.sheets = WorkbookSheets(template,
                             SupplierSheet(suppliers[1], suppliers[1].excelUUID))

\* C20: row values are read and written under the column's accessorKey: a
\* serialised data cell shows the row record's value at column.accessorKey,
\* and the reconciler stores what it extracts for an editable column at that
\* key, so a row reconciled by processTables or extractSubsectionTableData
\* has no key beyond those of the original row and the accessor keys, also
\* when a column's id differs from its accessorKey.
C20_ValuesUnderAccessorKey ==
    /\ Pristine =>
          \A cell \in CellsOf(workbook.sheets) :
             (cell.ref # NoRef /\ cell.ref[1] = "cell") =>
                \A t \in {x \in AllTables : x.id = cell.ref[2]} :
                   CellText(cell) = IF Has(t.data[cell.ref[3]], cell.ref[4])
                                    THEN t.data[cell.ref[3]][cell.ref[4]] ELSE ""
    /\ (extracted.status = "ok" /\ ~Has(template, "questionnaire")) =>
          \A pair \in TablePairs(template, extracted.data) :
             \A i \in 1..Len(pair[2].data) :
                DOMAIN pair[2].data[i]
                   \subseteq {col.accessorKey : col \in Range(pair[1].columns)}
                             \cup (IF i <= Len(pair[1].data) THEN DOMAIN pair[1].data[i]
                                   ELSE {})

---------------------------------------------------------------------------
(* SQR life cycle: SQRs are created, filled from uploaded files and         *)
(* submitted; workbooks are generated into temporary files and e-mailed     *)

MaxSqrCalls == 4

\* the supplierId a client passes: "3" is no supplier of the RFQ
SqrSupplierIds == {"1", "2", "3"}

InitSqr ==
    /\ template = TokenTemplate
    /\ sqr = NoSqr
    /\ workbook = NoWorkbook
    /\ extracted = NoExtract
    /\ suppliers = TokenSuppliers
    /\ calls = <<>>
    /\ uuids = 0
    /\ responses = <<>>
    /\ applied = {}
    /\ lowestQuotes = NoLowest
    /\ EmptyStore

\* SQRModel.findOne({ rfqId, supplierId }): the position of the first SQR of
\* the supplier, 0 when there is none
FindSQR(docs, supplierId) ==
    IF \E i \in 1..Len(docs) : docs[i].supplierId = supplierId
    THEN SetMin({i \in 1..Len(docs) : docs[i].supplierId = supplierId})
    ELSE 0

\* createFromRFQ, first part: the RFQ is found and findOne looks for an SQR
\* of the pair; the call remembers what it found
FindExistingSQR ==
    /\ Len(calls) < MaxSqrCalls
    /\ \E s \in SqrSupplierIds :
         calls' = Append(calls, Call("create", "checked", s, FindSQR(sqrs, s), <<>>))
    /\ UNCHANGED <<suppliers, uuids, responses, applied>>
    /\ UNCHANGED docVars

\* createFromRFQ, second part: the SQR found is returned, or SQRModel.create
\* inserts a draft
CreateSQR ==
    /\ \E c \in 1..Len(calls) :
         /\ calls[c].op = "create"
         /\ calls[c].pc = "checked"
         /\ IF calls[c].arg # 0
            THEN /\ calls' = [calls EXCEPT ![c].pc = "done"]
                 /\ UNCHANGED sqrs
            ELSE /\ sqrs' = Append(sqrs, [supplierId |-> calls[c].sup, status |-> "draft",
                                          submissionDate |-> NULL])
                 /\ calls' = [calls EXCEPT ![c].pc = "done", ![c].arg = Len(sqrs) + 1]
    /\ UNCHANGED <<suppliers, uuids, responses, applied>>
    /\ UNCHANGED <<template, sqr, workbook, extracted, lowestQuotes, rfqs, files>>

\* submitSQR, first part: the SQR is saved as submitted
SaveSubmittedSQR ==
    /\ Len(calls) < MaxSqrCalls
    /\ \E i \in 1..Len(sqrs) :
         /\ sqrs' = [sqrs EXCEPT ![i].status = "submitted", ![i].submissionDate = "now"]
         /\ calls' = Append(calls, Call("submit", "saved", sqrs[i].supplierId, i, <<>>))
    /\ UNCHANGED <<suppliers, uuids, responses, applied>>
    /\ UNCHANGED <<template, sqr, workbook, extracted, lowestQuotes, rfqs, files>>

\* submitSQR, second part: updateRFQWithSupplierResponse throws when the
\* SQR's supplier is not among rfq.suppliers, else marks it submitted
FinishSubmitSQR ==
    /\ \E c \in 1..Len(calls) :
         /\ calls[c].op = "submit"
         /\ calls[c].pc = "saved"
         /\ LET i == FindSupplier(suppliers, calls[c].sup)
            IN IF i = 0
               THEN /\ calls' = [calls EXCEPT ![c].pc = "failed"]
                    /\ UNCHANGED suppliers
               ELSE /\ calls' = [calls EXCEPT ![c].pc = "done"]
                    /\ suppliers' = [suppliers EXCEPT ![i].status = "submitted"]
    /\ UNCHANGED <<uuids, responses, applied>>
    /\ UNCHANGED docVars

\* POST /:id/excel: multer writes the uploaded file to disk; arg is the SQR
\* the id names (0: none), snap tells whether the file is a readable workbook
ReceiveUploadedFile ==
    /\ Len(calls) < MaxSqrCalls
    /\ \E target \in 0..Len(sqrs) : \E readable \in BOOLEAN :
         calls' = Append(calls, Call("import", "received", NULL, target, readable))
    /\ files' = files \cup {Len(calls) + 1}
    /\ UNCHANGED <<suppliers, uuids, responses, applied>>
    /\ UNCHANGED <<template, sqr, workbook, extracted, lowestQuotes, sqrs, rfqs>>

\* importSQRFromExcel: throws when the SQR is not found or the file cannot
\* be read; else saves the SQR as a draft and unlinks the file
ImportUploadedFile ==
    /\ \E c \in 1..Len(calls) :
         /\ calls[c].op = "import"
         /\ calls[c].pc = "received"
         /\ IF calls[c].arg = 0 \/ ~calls[c].snap
            THEN /\ calls' = [calls EXCEPT ![c].pc = "failed"]
                 /\ UNCHANGED <<sqrs, files>>
            ELSE /\ calls' = [calls EXCEPT ![c].pc = "done"]
                 /\ sqrs' = [sqrs EXCEPT ![calls[c].arg].status = "draft"]
                 /\ files' = files \ {c}
    /\ UNCHANGED <<suppliers, uuids, responses, applied>>
    /\ UNCHANGED <<template, sqr, workbook, extracted, lowestQuotes, rfqs>>

\* generateAndSendExcel, first part: the RFQ is loaded and generateRFQExcel
\* writes the workbook to a temporary file
GenerateExcelFile ==
    /\ Len(calls) < MaxSqrCalls
    /\ \E s \in SupplierNumbers :
         calls' = Append(calls, Call("send", "generated", s, "number", suppliers))
    /\ files' = files \cup {Len(calls) + 1}
    /\ UNCHANGED <<suppliers, uuids, responses, applied>>
    /\ UNCHANGED <<template, sqr, workbook, extracted, lowestQuotes, sqrs, rfqs>>

\* generateAndSendExcel, second part: sendInvitationEmail resolves or
\* rejects; after a rejection the catch block rethrows, after success the
\* supplier is marked invited and the file is unlinked
SendInvitation ==
    /\ \E c \in 1..Len(calls) : \E sent \in BOOLEAN :
         /\ calls[c].op = "send"
         /\ calls[c].pc = "generated"
         /\ IF sent
            THEN /\ calls' = [calls EXCEPT ![c].pc = "done"]
                 /\ \E carried \in BOOLEAN :
                      suppliers' = StaleSuppliers(calls[c].snap, calls[c].sup, "invited",
                                                  carried)
                 /\ files' = files \ {c}
            ELSE /\ calls' = [calls EXCEPT ![c].pc = "failed"]
                 /\ UNCHANGED <<suppliers, files>>
    /\ UNCHANGED <<uuids, responses, applied>>
    /\ UNCHANGED <<template, sqr, workbook, extracted, lowestQuotes, sqrs, rfqs>>

NextSqr ==
    \/ FindExistingSQR
    \/ CreateSQR
    \/ SaveSubmittedSQR
    \/ FinishSubmitSQR
    \/ ReceiveUploadedFile
    \/ ImportUploadedFile
    \/ GenerateExcelFile
    \/ SendInvitation

SpecSqr == InitSqr /\ [][NextSqr]_vars

---------------------------------------------------------------------------
(* POST /api/rfq: validateRFQ, then RFQController.create                   *)

\* r with key k set to v when has holds
Opt(r, k, has, v) == IF has THEN Put(r, k, v) ELSE r

\* the request bodies: each part absent or present with a valid or an
\* invalid content
CreateBodies ==
    { Opt(Opt(Opt(Opt(
         [generalDetails |-> PutOpt(PutOpt([dueDate |-> "2026-01-01T00:00:00.000Z"],
                                           "title", gdTitle), "status", gdStatus),
          questionnaire |-> <<>>, items |-> <<>>],
         "status", status # NULL, status),
         "title", title # NULL, title),
         "scopeOfWork", sow # "absent",
             IF sow = "empty" THEN <<>> ELSE << [title |-> sow] >>),
         "suppliers", sups # "absent",
             IF sups = "empty" THEN <<>>
             ELSE << [id |-> 1, name |-> "Acme", email |-> "a@example.com",
                      status |-> sups] >>)
      : status \in {NULL, "pending", "draft"}, title \in {NULL, "Test RFQ"},
        gdTitle \in {NULL, "", "Test RFQ"}, gdStatus \in {NULL, "draft", "pending"},
        sow \in {"absent", "empty", "", "Site works"},
        sups \in {"absent", "empty", "pending", "invited"} }

\* .optional().isIn(['pending', 'approved'])
OptionalStatusOk(r) == Has(r, "status") => r.status \in {"pending", "approved"}

\* body(k).isArray() and body(k + '.*.title').notEmpty()
TitledArrayOk(body, k) ==
    Has(body, k) /\ \A x \in Range(body[k]) : Truthy(Get(x, "title"))

\* the fields validateRFQ reports; the last middleware answers 400 when the
\* set is not empty
validateRFQ(body) ==
    {f \in {"status", "generalDetails.title", "generalDetails.status", "scopeOfWork",
             "questionnaire", "items", "suppliers"} :
        ~ CASE f = "status" -> OptionalStatusOk(body)
            [] f = "generalDetails.title" -> Truthy(Get(body.generalDetails, "title"))
            [] f = "generalDetails.status" -> OptionalStatusOk(body.generalDetails)
            [] f = "suppliers" ->
                 Has(body, "suppliers")
                 /\ \A x \in Range(body.suppliers) :
                       {"id", "name", "email"} \subseteq DOMAIN x
            [] OTHER -> TitledArrayOk(body, f)}

\* RFQSchema.pre('validate'): a supplier status 'pending' becomes 'invited'
PreValidate(sups) ==
    [i \in 1..Len(sups) |->
        IF Get(sups[i], "status") = "pending" THEN [sups[i] EXCEPT !.status = "invited"]
        ELSE sups[i]]

InitCreate ==
    /\ template = TokenTemplate
    /\ sqr = NoSqr
    /\ workbook = NoWorkbook
    /\ extracted = NoExtract
    /\ suppliers = <<>>
    /\ \E body \in CreateBodies :
         calls = << [op |-> "createRFQ", pc |-> "received", body |-> body, status |-> 0] >>
    /\ uuids = 0
    /\ responses = <<>>
    /\ applied = {}
    /\ lowestQuotes = NoLowest
    /\ EmptyStore

\* the validateRFQ middleware chain
ValidateRequest ==
    /\ calls[1].pc = "received"
    /\ calls' = IF validateRFQ(calls[1].body) = {}
                THEN [calls EXCEPT ![1].pc = "validated"]
                ELSE [calls EXCEPT ![1].pc = "responded", ![1].status = 400]
    /\ UNCHANGED <<suppliers, uuids, responses, applied>>
    /\ UNCHANGED docVars

\* RFQController.create: new RFQModel(...).save() rejects a document without
\* the required top-level title (answer 500), else stores it (answer 201)
CreateRFQ ==
    /\ calls[1].pc = "validated"
    /\ IF Has(calls[1].body, "title")
       THEN /\ rfqs' = Append(rfqs, [calls[1].body EXCEPT
                                       !.suppliers = PreValidate(@)])
            /\ calls' = [calls EXCEPT ![1].pc = "responded", ![1].status = 201]
       ELSE /\ calls' = [calls EXCEPT ![1].pc = "responded", ![1].status = 500]
            /\ UNCHANGED rfqs
    /\ UNCHANGED <<suppliers, uuids, responses, applied>>
    /\ UNCHANGED <<template, sqr, workbook, extracted, lowestQuotes, sqrs, files>>

NextCreate == ValidateRequest \/ CreateRFQ

SpecCreate == InitCreate /\ [][NextCreate]_vars

---------------------------------------------------------------------------
(* storeSupplierResponse, step by step: concurrent uploads interleave at   *)
(* every await                                                             *)

MaxStoreCalls == 3

\* the supplierId of the URL: a supplier of the RFQ or not
StoreSupplierIds == {"1", "2", "3"}

StoreSuppliers ==
    [i \in 1..Len(TokenSuppliers) |->
        Put([TokenSuppliers[i] EXCEPT !.status = "invited"],
            "latestSupplierQuoteRequestId", 0)]

InitStore ==
    /\ template = TokenTemplate
    /\ sqr = NoSqr
    /\ workbook = NoWorkbook
    /\ extracted = NoExtract
    /\ suppliers = StoreSuppliers
    /\ calls = <<>>
    /\ uuids = 0
    /\ responses = <<>>
    /\ applied = {}
    /\ lowestQuotes = NoLowest
    /\ EmptyStore

\* SupplierQuoteRequestModel.findOne({rfqId, supplierId}, {}, sort version -1)
\* and newVersion
FindLatestQuoteRequest ==
    /\ Len(calls) < MaxStoreCalls
    /\ \E s \in StoreSupplierIds :
         calls' = Append(calls, [op |-> "store", pc |-> "read", sup |-> s,
                                 version |-> newVersion(responses, s), quote |-> 0])
    /\ UNCHANGED <<suppliers, uuids, responses, applied>>
    /\ UNCHANGED docVars

\* quoteRequest.save()
SaveQuoteRequest ==
    /\ \E c \in 1..Len(calls) :
         /\ calls[c].pc = "read"
         /\ responses' = Append(responses,
               [id |-> Len(responses) + 1, supplierId |-> calls[c].sup,
                version |-> calls[c].version, status |-> "submitted",
                evaluated |-> FALSE])
         /\ calls' = [calls EXCEPT ![c].pc = "saved", ![c].quote = Len(responses) + 1]
    /\ UNCHANGED <<suppliers, uuids, applied>>
    /\ UNCHANGED docVars

\* createEvaluationResponsePayload awaits the evaluation service, whose
\* error is rethrown; updateSupplierQuoteRequestWithEvaluationResponse
\* writes the grades
EvaluateQuoteRequest ==
    /\ \E c \in 1..Len(calls) : \E ok \in BOOLEAN :
         /\ calls[c].pc = "saved"
         /\ IF ok
            THEN /\ responses' = [responses EXCEPT ![calls[c].quote].evaluated = TRUE]
                 /\ calls' = [calls EXCEPT ![c].pc = "evaluated"]
            ELSE /\ calls' = [calls EXCEPT ![c].pc = "failed"]
                 /\ UNCHANGED responses
    /\ UNCHANGED <<suppliers, uuids, applied>>
    /\ UNCHANGED docVars

\* RFQModel.updateOne({_id, "suppliers.id": supplierId}, {$set: ...}): no
\* supplier matching changes nothing and is no error
UpdateSupplierInRFQ ==
    /\ \E c \in 1..Len(calls) :
         /\ calls[c].pc = "evaluated"
         /\ calls' = [calls EXCEPT ![c].pc = "done"]
         /\ LET i == FindSupplier(suppliers, calls[c].sup)
            IN suppliers' = IF i = 0 THEN suppliers
                            ELSE [suppliers EXCEPT
                                    ![i].latestSupplierQuoteRequestId = calls[c].quote,
                                    ![i].status = "responded"]
    /\ UNCHANGED <<uuids, responses, applied>>
    /\ UNCHANGED docVars

NextStore ==
    \/ FindLatestQuoteRequest
    \/ SaveQuoteRequest
    \/ EvaluateQuoteRequest
    \/ UpdateSupplierInRFQ

SpecStore == InitStore /\ [][NextStore]_vars

---------------------------------------------------------------------------
(* Invitations: suppliers are added at creation or later, and              *)
(* sendRFQToSuppliers sends the workbook to those not yet invited          *)

MaxInviteCalls == 4

InviteSupplierIds == {1, 2, 3}

InviteEmails == {"", "s@example.com"}

\* a supplier of the request body, status absent or given
InviteSupplier(id, email, status) ==
    PutOpt([id |-> id, email |-> email], "status", status)

\* req.body.suppliers of POST /api/rfq
CreateSupplierLists ==
    {<<>>}
    \cup { << InviteSupplier(1, e, st) >> :
              e \in InviteEmails, st \in {NULL, "pending", "selected"} }
    \cup { << InviteSupplier(1, e1, st), InviteSupplier(2, e2, "pending") >> :
              e1 \in InviteEmails, e2 \in InviteEmails, st \in {NULL, "selected"} }

\* history: sent tells whether an invitation has gone out to the supplier
Stored(sup, status, sent) ==
    [id |-> sup.id, email |-> sup.email, status |-> status, excelUUID |-> NULL,
     sent |-> sent]

InitInvite ==
    /\ template = TokenTemplate
    /\ sqr = NoSqr
    /\ workbook = NoWorkbook
    /\ extracted = NoExtract
    /\ suppliers = <<>>
    /\ calls = <<>>
    /\ uuids = 0
    /\ responses = <<>>
    /\ applied = {}
    /\ lowestQuotes = NoLowest
    /\ EmptyStore

\* POST /api/rfq: RFQService.create stores the suppliers, a status 'pending'
\* (given, or the schema's default) stored as 'invited'; the controller then
\* runs sendExcelToSuppliers without awaiting it, a supplier without email
\* is passed over and a failure for one supplier is only logged
CreateWithSuppliers ==
    /\ calls = <<>>
    /\ \E list \in CreateSupplierLists :
         \E reached \in SUBSET {i \in 1..Len(list) : list[i].email # ""} :
            /\ suppliers' = [i \in 1..Len(list) |->
                   Stored(list[i],
                          IF Get(list[i], "status") \in {NULL, "pending"} THEN "invited"
                          ELSE list[i].status,
                          i \in reached)]
            /\ calls' = << [op |-> "create", status |-> 201, results |-> <<>>] >>
    /\ UNCHANGED <<uuids, responses, applied>>
    /\ UNCHANGED docVars

\* POST /:id/suppliers: the supplier is pushed with status 'invited' and the
\* RFQ saved; nothing is sent
addSupplierToRFQ ==
    /\ calls # <<>>
    /\ Len(calls) < MaxInviteCalls
    /\ \E id \in InviteSupplierIds : \E email \in InviteEmails :
         IF \E i \in 1..Len(suppliers) : suppliers[i].id = id
         THEN /\ calls' = Append(calls, [op |-> "add", status |-> 400, results |-> <<>>])
              /\ UNCHANGED suppliers
         ELSE /\ calls' = Append(calls, [op |-> "add", status |-> 200, results |-> <<>>])
              /\ suppliers' = Append(suppliers,
                     Stored([id |-> id, email |-> email], "invited", FALSE))
    /\ UNCHANGED <<uuids, responses, applied>>
    /\ UNCHANGED docVars

\* storeSupplierResponse marks the supplier responded
RespondSupplier ==
    /\ calls # <<>>
    /\ Len(calls) < MaxInviteCalls
    /\ \E i \in 1..Len(suppliers) :
         /\ suppliers[i].status # "responded"
         /\ suppliers' = [suppliers EXCEPT ![i].status = "responded"]
    /\ calls' = Append(calls, [op |-> "respond", status |-> 200, results |-> <<>>])
    /\ UNCHANGED <<uuids, responses, applied>>
    /\ UNCHANGED docVars

\* the result sendRFQToSuppliers reports for one supplier; failed tells
\* whether generateAndSendExcel rejected
SendResult(sup, failed) ==
    IF sup.status \in {"invited", "responded"} THEN "skipped"
    ELSE IF sup.email = "" THEN "error"
    ELSE IF failed THEN "error"
    ELSE "success"

\* POST /:id/send: generateAndSendExcel is called without a supplierId, so
\* it finds no supplier to mark invited and the statuses stay as they are
sendRFQToSuppliers ==
    /\ calls # <<>>
    /\ Len(calls) < MaxInviteCalls
    /\ IF suppliers = <<>>
       THEN /\ calls' = Append(calls, [op |-> "send", status |-> 404, results |-> <<>>])
            /\ UNCHANGED suppliers
       ELSE \E failing \in SUBSET (1..Len(suppliers)) :
            LET results == [i \in 1..Len(suppliers) |->
                               SendResult(suppliers[i], i \in failing)]
            IN /\ \A i \in failing : SendResult(suppliers[i], FALSE) = "success"
               /\ calls' = Append(calls, [op |-> "send", status |-> 200,
                                          results |-> results])
               /\ suppliers' = [i \in 1..Len(suppliers) |->
                     IF results[i] = "success" THEN [suppliers[i] EXCEPT !.sent = TRUE]
                     ELSE suppliers[i]]
    /\ UNCHANGED <<uuids, responses, applied>>
    /\ UNCHANGED docVars

NextInvite ==
    \/ CreateWithSuppliers
    \/ addSupplierToRFQ
    \/ RespondSupplier
    \/ sendRFQToSuppliers

SpecInvite == InitInvite /\ [][NextInvite]_vars

---------------------------------------------------------------------------
(* Properties of the SQR's life cycle *)

\* C21: the status of an SQR only moves forward: once it is submitted (or
\* accepted / rejected) no step, an upload of another workbook included,
\* takes it back to draft.
C21_SubmittedNeverDraftAgain ==
    [][sqr.status \in {"submitted", "accepted", "rejected"} => sqr'.status # "draft"]_vars

\* C22: at most one SQR exists per (rfqId, supplierId): a createFromRFQ
\* for a pair that has an SQR returns it, and no interleaving of two
\* createFromRFQ calls leaves two SQRs of one pair.
C22_OneSqrPerSupplier ==
    /\ \A i \in 1..Len(sqrs) : \A j \in 1..Len(sqrs) :
          sqrs[i].supplierId = sqrs[j].supplierId => i = j
    /\ \A c \in 1..Len(calls) :
          (calls[c].op = "create" /\ calls[c].pc = "done")
             => sqrs[calls[c].arg].supplierId = calls[c].sup

\* C23: when a submitSQR call ends, with or without an error, the SQR is
\* submitted with its submissionDate set exactly if the RFQ's record of that
\* supplier has been set to submitted.
C23_SubmitFinalizesBoth ==
    [][\A c \in 1..Len(calls) :
          (calls[c].op = "submit" /\ calls[c].pc = "saved"
           /\ calls'[c].pc \in {"done", "failed"})
          => ((sqrs'[calls[c].arg].status = "submitted"
               /\ sqrs'[calls[c].arg].submissionDate # NULL)
              <=> \E i \in 1..Len(suppliers') :
                     /\ IdString(suppliers'[i].id) = calls[c].sup
                     /\ suppliers'[i].status = "submitted")]_vars

\* C24: the temporary file of a generate-and-send call or of an upload is
\* gone once the call has ended, whether it succeeded or failed.
C24_TemporaryFilesDeleted ==
    \A c \in 1..Len(calls) :
        (calls[c].op \in {"send", "import"} /\ calls[c].pc \in {"done", "failed"})
           => c \notin files

\* the body the test posts
TestBody ==
    [generalDetails |-> [title |-> "Test RFQ", dueDate |-> "2026-01-01T00:00:00.000Z",
                         status |-> "draft"],
     scopeOfWork |-> <<>>, questionnaire |-> <<>>, items |-> <<>>]

\* C25: POST /api/rfq with generalDetails {title, dueDate, status: 'draft'}
\* and empty scopeOfWork, questionnaire and items (no suppliers, no
\* top-level title) passes validation, creates an RFQ and is answered 201.
C25_TestBodyCreatesRfq ==
    (calls[1].body = TestBody /\ calls[1].pc = "responded")
        => calls[1].status = 201 /\ Len(rfqs) = 1

\* the versions stored for a supplier, in order of storage
VersionsOf(supplierId) ==
    LET mine == SelectSeq(responses, LAMBDA q : q.supplierId = supplierId)
    IN [i \in 1..Len(mine) |-> mine[i].version]

\* C26: for each supplier the stored quote requests carry the versions
\* 1, 2, ..., n in order of storage, also when uploads for the same supplier
\* are processed concurrently.
C26_VersionsAreConsecutive ==
    \A s \in StoreSupplierIds :
        VersionsOf(s) = [i \in 1..Len(VersionsOf(s)) |-> i]

\* C27: storeSupplierResponse is all-or-nothing: a call that fails leaves
\* no quote request version stored; a call that succeeds leaves the RFQ's
\* supplier record responded and referring to the version it stored.
C27_StoreAllOrNothing ==
    [][\A c \in 1..Len(calls) :
         /\ (calls[c].pc # "failed" /\ calls'[c].pc = "failed")
               => \A i \in 1..Len(responses') : responses'[i].id # calls[c].quote
         /\ (calls[c].pc # "done" /\ calls'[c].pc = "done")
               => \E i \in 1..Len(suppliers') :
                     /\ IdString(suppliers'[i].id) = calls[c].sup
                     /\ suppliers'[i].status = "responded"
                     /\ suppliers'[i].latestSupplierQuoteRequestId = calls[c].quote]_vars

\* C28: reconciliation never changes the number of rows of a table: every
\* table of the reconciled document has as many rows as the same table of
\* the original document, whatever rows the uploaded sheet contains.
C28_RowCountKept ==
    extracted.status = "ok" =>
        \A pair \in TablePairs(template, extracted.data) :
            Len(pair[2].data) = Len(pair[1].data)

\* the supplier of a download had a stored token when the RFQ was loaded,
\* and a workbook generated and filed for that supplier before
HadStoredToken(call) ==
    /\ call.op = "download"
    /\ call.snap[FindSupplier(call.snap, IdString(call.sup))].excelUUID # NULL
    /\ \E g \in call.after : calls[g].sup = call.sup /\ calls[g].arg # "undefined"

\* C29: a download for a supplier that already has a stored token and a
\* generated file returns the stored file and leaves the stored token
\* unchanged, so a workbook delivered earlier remains valid for upload.
C29_DownloadKeepsToken ==
    [][\A c \in 1..Len(calls) :
         (HadStoredToken(calls[c]) /\ calls'[c].pc # calls[c].pc)
            => LET i == FindSupplier(suppliers, IdString(calls[c].sup))
               IN suppliers'[i].excelUUID = suppliers[i].excelUUID]_vars

\* the step is a sendRFQToSuppliers call that reached the suppliers
SendStep ==
    /\ Len(calls') = Len(calls) + 1
    /\ calls'[Len(calls')].op = "send"
    /\ calls'[Len(calls')].status = 200

\* C30: a supplier with an email that was added to the RFQ and has not yet
\* been sent a workbook is sent one by the next sendRFQToSuppliers call;
\* only suppliers that were sent an invitation earlier or have responded
\* are skipped.
C30_UninvitedSuppliersAreSent ==
    [][SendStep =>
         \A i \in 1..Len(suppliers) :
            (suppliers[i].email # "" /\ calls'[Len(calls')].results[i] = "skipped")
               => suppliers[i].sent \/ suppliers[i].status = "responded"]_vars

====
